---- MODULE Spec2Model ----
(***************************************************************************)
(* Idempotent-mutation gateway (apps/core/idempotency.py) and the like     *)
(* toggle with its denormalized counter (apps/posts/services.py), modelled *)
(* as state machines over the shared key-value cache and the relational    *)
(* store.                                                                  *)
(*                                                                         *)
(* Strings that the code builds by concatenation (cache keys) are modelled *)
(* as sequences of their ':'-separated segments, so that two different     *)
(* tokens can yield the same key exactly when the code's f-strings do.     *)
(***************************************************************************)
EXTENDS Integers, Sequences, FiniteSets, TLC

\* ------------------------------------------------------------------ bounds

\* Number of gateway requests (each request slot is used once).
NReq == 3
\* Number of gateway requests admitted when requests may overlap in time.
NConcurrent == 2
\* Number of toggle_like calls (each call slot is used once).
NCalls == 3
\* Number of toggle_follow calls (each call slot is used once).
NFollowCalls == 2

\* Calls of invalidate_feed.
NInvalidate == 2
\* Reads of the following feed.
NReads == 2
\* Number of TTL expiry events of cache entries.
MaxExpire == 1

Reqs == 1..NReq
ConcurrentReqs == {r \in Reqs : r <= NConcurrent}
Calls == 1..NCalls
FCalls == 1..NFollowCalls
ICalls == 1..NInvalidate
Reads == 1..NReads

\* ------------------------------------------------------------------ inputs

LikeUsers == {"u1", "u2", "u3"}
Posts == {"p1"}
FollowUsers == {"u1", "u2"}

\* Owners of a following feed (str(request.user.id)) and the pages they read.
FeedUsers == {"u1", "u2"}
FeedPages == {1, 2}

\* The X-Idempotency-Key header: a client-chosen token, the sequence of its
\* ':'-separated segments ("x" and "fp:x"), or nothing: an absent header (None)
\* and an empty one ("") are both falsy and are the empty sequence.
NoKey == <<>>
Tokens == {<<"x">>, <<"fp", "x">>}
Headers == {NoKey} \cup Tokens

\* A token a client may equally choose: "feed:u1", the text "feed:" followed
\* by the identifier of a user.
FeedToken == <<"feed", "u1">>

PostsPath == "/api/v1/posts/"
CommentsPath == "/api/v1/posts/p1/comments/"

\* Request bodies: a JSON object as the ordered list of its (field, value) pairs.
Bodies == { << <<"content", "hello">> >>,
            << <<"content", "different">> >>,
            << <<"content", "  ">> >> }

Hello == << <<"content", "hello">> >>
Blank == << <<"content", "  ">> >>

Shape(path, body, user) == [path |-> path, body |-> body, user |-> user]

\* What a request asks for: the base request (u1 posts "hello") or one that
\* differs from it in the body, the caller or the path.
Shapes == {Shape(PostsPath, b, "u1") : b \in Bodies}
          \cup {Shape(PostsPath, Hello, "u2"), Shape(CommentsPath, Hello, "u1")}

Request(header, s) == [header |-> header, method |-> "POST", path |-> s.path,
                       body |-> s.body, user |-> s.user]

\* The requests a caller may send: any shape under a token, and without a
\* token the base request and the one with the blank body.
Requests == {Request(h, s) : h \in Tokens, s \in Shapes}
            \cup {Request(NoKey, Shape(PostsPath, b, "u1")) : b \in {Hello, Blank}}

\* ------------------------------------------------------------------ state

VARIABLES
    cache,          \* the key-value cache: cache key -> stored value
    written,        \* the cache keys present, oldest write first (same TTL: expiry order)
    epoch,          \* number of TTL expiries so far
    post_rows,      \* Post rows created through the API
    comment_rows,   \* Comment rows
    comments_count, \* Post.comments_count of the fixture posts
    pc,             \* position of each request in idempotent.wrapper
    req,            \* the request each slot carries
    stored,         \* wrapper's local stored_response
    response,       \* the response returned to the caller
    ran,            \* how many times the wrapped handler ran for the request
    created,        \* id of the entity the handler persisted (0: none)
    reads,          \* cache.get calls the request made
    writes,         \* cache.set calls the request made
    before,         \* requests that had completed when this one arrived
    lapsed,         \* an entry has expired under the request's keys since it wrote them
    lapsed_before,  \* the requests whose entries had expired when this one arrived
    likes,          \* committed Like rows
    likes_count,    \* committed Post.likes_count
    row_lock,       \* which call's transaction holds the Post row lock (0: none)
    tl_pc,          \* position of each call in toggle_like
    tl_arg,         \* (user, post) of each call
    tl_like,        \* the Like row get_or_create returned
    tl_ins,         \* rows inserted by the open transaction
    tl_del,         \* rows deleted by the open transaction
    tl_count,       \* likes_count written by the open transaction
    tl_result,      \* the (liked, likes_count) the call returned
    tl_before,      \* calls that had completed when this one started
    tl_start,       \* likes_count and row presence seen when the call started
    count0,         \* likes_count in the initial state
    cache_up,       \* the cache backend is reachable
    fault,          \* the step at which a cache call of the request raised ("": none)
    follows,        \* Follow rows
    fo_pc,          \* position of each call in toggle_follow
    fo_arg,         \* (follower, following) of each call
    fo_result,      \* the (following, followers_count) the call returned, and the status
    fo_ops,         \* database statements the call has executed
    fo_before,      \* calls that had completed when this one started
    fo_start,       \* whether the Follow row existed when the call started
    feed_cache,     \* the cached feed pages, by cache key
    redis_import,   \* whether django_redis can be imported in this deployment
    inv_pc,         \* position of each call of invalidate_feed
    inv_arg,        \* the user_id of each call
    scan_todo,      \* matching Redis names the call's SCAN iteration has still to return
    inv_clean,      \* no page of the call's user was cached since the call started
    inv_start,      \* whether every page of the call's user was cached when it started
    post_content,   \* committed Post.content
    up_pc,          \* position of the post update
    up_row,         \* the Post instance the update loaded, and the new content
    rd_pc,          \* position of each read of the following feed
    rd_arg,         \* (user_id, page) of each read
    rd_data,        \* the serializer data or cached data the read holds
    rd_status,      \* the status of the read's response (0: none yet)
    rd_before       \* calls of toggle_follow that had completed when the read arrived

gw_vars == <<cache, written, epoch, post_rows, comment_rows, comments_count, pc, req,
             stored, response, ran, created, reads, writes, before, lapsed,
             lapsed_before>>
tl_vars == <<likes, likes_count, row_lock, tl_pc, tl_arg, tl_like, tl_ins,
             tl_del, tl_count, tl_result, tl_before, tl_start, count0>>
out_vars == <<cache_up, fault>>
fo_vars == <<follows, fo_pc, fo_arg, fo_result, fo_ops, fo_before, fo_start>>
feed_vars == <<feed_cache, redis_import, inv_pc, inv_arg, scan_todo, inv_clean,
               inv_start>>
up_vars == <<post_content, up_pc, up_row>>
rd_vars == <<rd_pc, rd_arg, rd_data, rd_status, rd_before>>
ext_vars == <<fo_vars, feed_vars, up_vars, rd_vars>>
vars == <<gw_vars, tl_vars, out_vars, ext_vars>>

\* ------------------------------------------------------------------ cache

None == [t |-> "none"]
Str(s) == [t |-> "str", s |-> s]
Dict(data, status) == [t |-> "dict", data |-> data, status |-> status]

\* Python truthiness of a cached value: None and "" are falsy.
Truthy(v) == IF v.t = "none" THEN FALSE
             ELSE IF v.t = "str" THEN v.s # <<>>
             ELSE TRUE

get_cache_key(idempotency_key) == <<"idempotency">> \o idempotency_key

get_fingerprint_key(idempotency_key) == <<"idempotency", "fp">> \o idempotency_key

CacheKeys ==
    {get_cache_key(k) : k \in Headers \cup {FeedToken}}
    \cup {get_fingerprint_key(k) : k \in Headers \cup {FeedToken}}

cache_get(key) == cache[key]

\* cache.get is a read: the entries are as they were.
get_evicts(c, key) == [c EXCEPT ![key] = None]
cache_after_get(c, key) == c

cache_set(c, key, value) == [c EXCEPT ![key] = value]

\* Order of expiry after cache.set(key, ..., IDEMPOTENCY_TTL): key becomes the youngest.
Touch(w, key) == SelectSeq(w, LAMBDA k : k # key) \o <<key>>

\* Bodies with two fields, in either order of the JSON text.
ContentFirst == << <<"content", "hello">>, <<"hashtags", "[]">> >>
HashtagsFirst == << <<"hashtags", "[]">>, <<"content", "hello">> >>

\* The base request with a one-field body or a two-field body in either order,
\* under one token or under none.
FieldOrderRequests ==
    {Request(h, Shape(PostsPath, b, "u1")) :
        h \in {NoKey, <<"x">>}, b \in {Hello, ContentFirst, HashtagsFirst}}

\* ------------------------------------------------------------------ requests

get_idempotency_key(request) == request.header

\* `not idempotency_key`
key_never_missing(k) == FALSE
NotKey(k) == Len(k) = 0

\* sha256 over json.dumps(sort_keys=True) of the four fields: an injective
\* encoding of (body, method, path, user), body as str(request.data).
fingerprint_of_body(request) == <<request.body>>
generate_request_fingerprint(request) ==
    <<request.body, request.method, request.path, request.user>>

Field(body, name) ==
    IF \E i \in 1..Len(body) : body[i][1] = name
    THEN LET i == CHOOSE j \in 1..Len(body) : body[j][1] = name IN body[i][2]
    ELSE ""

\* str.strip()
Strip(s) == IF s = "  " THEN "" ELSE s

\* validate_content of PostCreateSerializer and CommentCreateSerializer
validate_content(value) == ~(value = "" \/ Strip(value) = "")

ErrorData(code) == [error |-> code]

Is2xx(status) == 200 <= status /\ status < 300

\* Comment.save: `is_new = self.pk is None`; pk 0 stands for None.
is_new(pk) == pk = 0

\* The wrapped view (PostViewSet.create, CommentViewSet.create) on `request`;
\* `id` is the uuid7 the new row is given when the model instance is built.
\* A ValidationError is raised, not returned, and becomes the 400 response.
create(request, id) ==
    LET content == Field(request.body, "content") IN
    IF ~validate_content(content)
    THEN [status |-> 400, data |-> ErrorData("BAD_REQUEST"), raised |-> TRUE, row |-> 0]
    ELSE IF request.path = PostsPath
    THEN [status |-> 201, data |-> [content |-> Strip(content)], raised |-> FALSE, row |-> id]
    ELSE [status |-> 201,
          data |-> [id |-> id, user |-> request.user, content |-> Strip(content)],
          raised |-> FALSE, row |-> id]

NoRequest == [header |-> NoKey, method |-> "", path |-> "", body |-> <<>>, user |-> ""]
NoResponse == [status |-> 0, data |-> None, replayed |-> FALSE]

Done(r) == pc[r] = "done"

\* ------------------------------------------------------------------ gateway

\* idempotent.wrapper, lines 113-118: the request arrives; without a key the
\* handler is called directly.
wrapper_arrive(r, request) ==
    /\ pc[r] = "idle"
    /\ IF r = 1 THEN TRUE ELSE pc[r - 1] # "idle"
    /\ req' = [req EXCEPT ![r] = request]
    /\ before' = [before EXCEPT ![r] = {q \in Reqs : Done(q)}]
    /\ pc' = [pc EXCEPT ![r] = IF NotKey(get_idempotency_key(request))
                                   THEN "call" ELSE "lookup"]
    /\ UNCHANGED <<cache, written, epoch, post_rows, comment_rows, comments_count,
                   stored, response, ran, created, reads, writes, lapsed, tl_vars, out_vars,
                   ext_vars>>

wrapper_begin(r, request) ==
    /\ wrapper_arrive(r, request)
    /\ UNCHANGED lapsed_before

\* The same step, noting which earlier requests with the token have had an
\* entry expire by now.
wrapper_begin_noting(r, request) ==
    /\ wrapper_arrive(r, request)
    /\ lapsed_before' = [lapsed_before EXCEPT ![r] =
                           {q \in Reqs : lapsed[q] /\ req[q].header = request.header}]

\* lines 121-123: stored_response = get_idempotent_response(idempotency_key)
wrapper_lookup(r) ==
    /\ pc[r] = "lookup"
    /\ cache_up
    /\ LET v == cache_get(get_cache_key(get_idempotency_key(req[r]))) IN
        /\ stored' = [stored EXCEPT ![r] = v]
        /\ pc' = [pc EXCEPT ![r] = IF Truthy(v) THEN "hit" ELSE "call"]
    /\ cache' = cache_after_get(cache, get_cache_key(get_idempotency_key(req[r])))
    /\ reads' = [reads EXCEPT ![r] = @ + 1]
    /\ UNCHANGED <<written, epoch, post_rows, comment_rows, comments_count,
                   req, response, ran, created, writes, before, lapsed, lapsed_before,
                   tl_vars, out_vars, ext_vars>>

\* lines 125-145: the stored fingerprint is read and compared; conflict or replay.
\* stored_response["data"] on a value that is not a dict raises TypeError (500).
hit_response_unchecked(stored_response, stored_fingerprint, current_fingerprint) ==
    IF stored_response.t = "dict"
    THEN [status |-> stored_response.status, data |-> stored_response.data,
          replayed |-> TRUE]
    ELSE [status |-> 500, data |-> ErrorData("TypeError"), replayed |-> FALSE]
hit_response(stored_response, stored_fingerprint, current_fingerprint) ==
    IF Truthy(stored_fingerprint) /\ stored_fingerprint # Str(current_fingerprint)
    THEN [status |-> 409, data |-> ErrorData("IDEMPOTENCY_CONFLICT"), replayed |-> FALSE]
    ELSE IF stored_response.t = "dict"
    THEN [status |-> stored_response.status, data |-> stored_response.data,
          replayed |-> TRUE]
    ELSE [status |-> 500, data |-> ErrorData("TypeError"), replayed |-> FALSE]

wrapper_hit(r) ==
    /\ pc[r] = "hit"
    /\ cache_up
    /\ LET stored_fingerprint == cache_get(get_fingerprint_key(get_idempotency_key(req[r])))
           current_fingerprint == generate_request_fingerprint(req[r])
       IN response' = [response EXCEPT ![r] =
                          hit_response(stored[r], stored_fingerprint, current_fingerprint)]
    /\ cache' = cache_after_get(cache, get_fingerprint_key(get_idempotency_key(req[r])))
    /\ stored' = [stored EXCEPT ![r] = None]
    /\ reads' = [reads EXCEPT ![r] = @ + 1]
    /\ pc' = [pc EXCEPT ![r] = "done"]
    /\ UNCHANGED <<written, epoch, post_rows, comment_rows, comments_count,
                   req, ran, created, writes, before, lapsed, lapsed_before,
                   tl_vars, out_vars, ext_vars>>

\* line 151 (and line 117): is the response to be stored?
should_store(request, result) ==
    ~NotKey(get_idempotency_key(request)) /\ ~result.raised /\ Is2xx(result.status)

\* lines 118 and 148-151: the wrapped handler runs.
wrapper_call(r) ==
    /\ pc[r] = "call"
    /\ LET result == create(req[r], r) IN
        /\ post_rows' = IF result.row # 0 /\ req[r].path = PostsPath
                         THEN post_rows \cup {[id |-> r, user |-> req[r].user,
                                               content |-> result.data.content]}
                         ELSE post_rows
        /\ comment_rows' = IF result.row # 0 /\ req[r].path = CommentsPath
                            THEN comment_rows \cup {[id |-> r, post |-> "p1",
                                                     user |-> req[r].user,
                                                     content |-> result.data.content]}
                            ELSE comment_rows
        /\ comments_count' = IF result.row # 0 /\ req[r].path = CommentsPath /\ is_new(r)
                              THEN [comments_count EXCEPT !["p1"] = @ + 1]
                              ELSE comments_count
        /\ created' = [created EXCEPT ![r] = result.row]
        /\ response' = [response EXCEPT ![r] =
                           [status |-> result.status, data |-> result.data,
                            replayed |-> FALSE]]
        /\ pc' = [pc EXCEPT ![r] = IF should_store(req[r], result)
                                   THEN "store_response" ELSE "done"]
    /\ ran' = [ran EXCEPT ![r] = @ + 1]
    /\ UNCHANGED <<cache, written, epoch, req, stored, reads, writes, before, lapsed, lapsed_before,
                   tl_vars, out_vars, ext_vars>>

\* store_idempotent_response, lines 76-82: the response entry is written.
store_response(r) ==
    /\ pc[r] = "store_response"
    /\ cache_up
    /\ LET cache_key == get_cache_key(get_idempotency_key(req[r])) IN
        /\ cache' = cache_set(cache, cache_key,
                              Dict(response[r].data, response[r].status))
        /\ written' = Touch(written, cache_key)
    /\ writes' = [writes EXCEPT ![r] = @ + 1]
    /\ pc' = [pc EXCEPT ![r] = "store_fingerprint"]
    /\ UNCHANGED <<epoch, post_rows, comment_rows, comments_count, req, stored,
                   response, ran, created, reads, before, lapsed, lapsed_before,
                   tl_vars, out_vars, ext_vars>>

\* store_idempotent_response, line 84, and the wrapper's return at line 160.
store_fingerprint(r) ==
    /\ pc[r] = "store_fingerprint"
    /\ cache_up
    /\ LET fingerprint_key == get_fingerprint_key(get_idempotency_key(req[r])) IN
        /\ cache' = cache_set(cache, fingerprint_key,
                              Str(generate_request_fingerprint(req[r])))
        /\ written' = Touch(written, fingerprint_key)
    /\ writes' = [writes EXCEPT ![r] = @ + 1]
    /\ pc' = [pc EXCEPT ![r] = "done"]
    /\ UNCHANGED <<epoch, post_rows, comment_rows, comments_count, req, stored,
                   response, ran, created, reads, before, lapsed, lapsed_before,
                   tl_vars, out_vars, ext_vars>>

\* CACHES has no IGNORE_EXCEPTIONS: a cache.get or cache.set on an unreachable
\* backend raises (django_redis ConnectionInterrupted).  The wrapper catches
\* nothing, so the exception leaves it and the caller gets a 500.
CacheSteps == {"lookup", "hit", "store_response", "store_fingerprint"}

cache_raises(r) ==
    /\ pc[r] \in CacheSteps
    /\ ~cache_up
    /\ fault' = [fault EXCEPT ![r] = pc[r]]
    /\ response' = [response EXCEPT ![r] =
                       [status |-> 500, data |-> ErrorData("ConnectionInterrupted"),
                        replayed |-> FALSE]]
    /\ stored' = [stored EXCEPT ![r] = None]
    /\ pc' = [pc EXCEPT ![r] = "done"]
    /\ UNCHANGED <<cache, written, epoch, post_rows, comment_rows, comments_count,
                   req, ran, created, reads, writes, before, lapsed, lapsed_before,
                   cache_up, tl_vars, ext_vars>>

\* The cache backend becomes unreachable, and reachable again.
cache_down ==
    /\ cache_up
    /\ cache_up' = FALSE
    /\ UNCHANGED <<gw_vars, tl_vars, fault, ext_vars>>

cache_recover ==
    /\ ~cache_up
    /\ cache_up' = TRUE
    /\ UNCHANGED <<gw_vars, tl_vars, fault, ext_vars>>

\* The cache keys of a request's token.
KeysOf(r) == {get_cache_key(get_idempotency_key(req[r])),
              get_fingerprint_key(get_idempotency_key(req[r]))}

\* IDEMPOTENCY_TTL: every entry is written with the same TTL, so the entry
\* written longest ago is the next to expire.
cache_expire ==
    /\ epoch < MaxExpire
    /\ written # <<>>
    /\ cache' = [cache EXCEPT ![Head(written)] = None]
    /\ written' = Tail(written)
    /\ epoch' = epoch + 1
    /\ lapsed' = [r \in Reqs |-> lapsed[r] \/ (writes[r] > 0 /\ Head(written) \in KeysOf(r))]
    /\ UNCHANGED <<post_rows, comment_rows, comments_count, pc, req, stored,
                   response, ran, created, reads, writes, before, lapsed_before, tl_vars,
                   out_vars, ext_vars>>

GwInit ==
    /\ cache = [k \in CacheKeys |-> None]
    /\ written = <<>>
    /\ epoch = 0
    /\ post_rows = {}
    /\ comment_rows = {}
    /\ comments_count = [p \in Posts |-> 0]
    /\ pc = [r \in Reqs |-> "idle"]
    /\ req = [r \in Reqs |-> NoRequest]
    /\ stored = [r \in Reqs |-> None]
    /\ response = [r \in Reqs |-> NoResponse]
    /\ ran = [r \in Reqs |-> 0]
    /\ created = [r \in Reqs |-> 0]
    /\ reads = [r \in Reqs |-> 0]
    /\ writes = [r \in Reqs |-> 0]
    /\ before = [r \in Reqs |-> {}]
    /\ lapsed = [r \in Reqs |-> FALSE]
    /\ lapsed_before = [r \in Reqs |-> {}]
    /\ cache_up = TRUE
    /\ fault = [r \in Reqs |-> ""]

\* No request is in progress.
Quiet == \A q \in Reqs : pc[q] \in {"idle", "done"}

\* Requests handled by concurrent workers: their steps interleave freely.
GwNext ==
    \/ \E r \in ConcurrentReqs, request \in Requests : wrapper_begin(r, request)
    \/ \E r \in Reqs : wrapper_lookup(r)
    \/ \E r \in Reqs : wrapper_hit(r)
    \/ \E r \in Reqs : wrapper_call(r)
    \/ \E r \in Reqs : store_response(r)
    \/ \E r \in Reqs : store_fingerprint(r)
    \/ cache_expire

\* Requests handled one at a time: a request arrives when none is in progress.
GwSequentialNext ==
    \/ \E r \in Reqs, request \in Requests : Quiet /\ wrapper_begin(r, request)
    \/ \E r \in Reqs : wrapper_lookup(r)
    \/ \E r \in Reqs : wrapper_hit(r)
    \/ \E r \in Reqs : wrapper_call(r)
    \/ \E r \in Reqs : store_response(r)
    \/ \E r \in Reqs : store_fingerprint(r)
    \/ cache_expire

\* Requests handled one at a time, each noting the expiries before its arrival.
GwExpiryNext ==
    \/ \E r \in Reqs, request \in Requests : Quiet /\ wrapper_begin_noting(r, request)
    \/ \E r \in Reqs : wrapper_lookup(r)
    \/ \E r \in Reqs : wrapper_hit(r)
    \/ \E r \in Reqs : wrapper_call(r)
    \/ \E r \in Reqs : store_response(r)
    \/ \E r \in Reqs : store_fingerprint(r)
    \/ cache_expire

\* Requests handled one at a time whose bodies list their fields in either order.
GwFieldOrderNext ==
    \/ \E r \in Reqs, request \in FieldOrderRequests : Quiet /\ wrapper_begin(r, request)
    \/ \E r \in Reqs : wrapper_lookup(r)
    \/ \E r \in Reqs : wrapper_hit(r)
    \/ \E r \in Reqs : wrapper_call(r)
    \/ \E r \in Reqs : store_response(r)
    \/ \E r \in Reqs : store_fingerprint(r)
    \/ cache_expire

\* Comment.delete (DestroyModelMixin.destroy): the row is deleted, then
\* comments_count = F("comments_count") - 1 is written.  comments_count is a
\* PositiveIntegerField: a negative value violates its check, the UPDATE raises
\* and the count stays as it was; the DELETE has been committed already (no
\* transaction around the two statements).
comment_delete(comment) ==
    /\ comment \in comment_rows
    /\ comment_rows' = comment_rows \ {comment}
    /\ comments_count' = IF comments_count[comment.post] - 1 < 0
                          THEN comments_count
                          ELSE [comments_count EXCEPT ![comment.post] = @ - 1]
    /\ UNCHANGED <<cache, written, epoch, post_rows, pc, req, stored, response, ran,
                   created, reads, writes, before, lapsed, lapsed_before,
                   tl_vars, out_vars, ext_vars>>

\* Requests handled one at a time, and deletions of comments.
GwCommentsNext ==
    \/ \E r \in Reqs, request \in Requests : Quiet /\ wrapper_begin(r, request)
    \/ \E r \in Reqs : wrapper_lookup(r)
    \/ \E r \in Reqs : wrapper_hit(r)
    \/ \E r \in Reqs : wrapper_call(r)
    \/ \E r \in Reqs : store_response(r)
    \/ \E r \in Reqs : store_fingerprint(r)
    \/ \E comment \in comment_rows : Quiet /\ comment_delete(comment)
    \/ cache_expire

\* Concurrent workers and a cache backend that can become unreachable.
GwOutageNext ==
    \/ \E r \in ConcurrentReqs, request \in Requests : wrapper_begin(r, request)
    \/ \E r \in Reqs : wrapper_lookup(r)
    \/ \E r \in Reqs : wrapper_hit(r)
    \/ \E r \in Reqs : wrapper_call(r)
    \/ \E r \in Reqs : store_response(r)
    \/ \E r \in Reqs : store_fingerprint(r)
    \/ \E r \in Reqs : cache_raises(r)
    \/ cache_expire
    \/ cache_down
    \/ cache_recover

\* ------------------------------------------------------------------ middleware

IDEMPOTENT_METHODS == {"POST", "PUT", "PATCH"}

\* `request.method not in self.IDEMPOTENT_METHODS`
every_method(method) == TRUE
is_idempotent_method(method) == method \in IDEMPOTENT_METHODS

Different == << <<"content", "different">> >>

MwRequest(method, header, body) ==
    [header |-> header, method |-> method, path |-> PostsPath, body |-> body,
     user |-> "u1"]

\* The requests that reach the middleware: the base POST under each header,
\* the base PUT and GET with and without token x, and POSTs of other bodies
\* under token x.
MiddlewareRequests ==
    {MwRequest("POST", h, Hello) : h \in Headers}
    \cup {MwRequest(m, h, Hello) : m \in {"PUT", "GET"}, h \in {NoKey, <<"x">>}}
    \cup {MwRequest("POST", <<"x">>, b) : b \in {Different, Blank}}

\* self.get_response(request): the downstream handler. POST creates a post;
\* PUT and GET answer 200 with a JSON object and create nothing.  An exception
\* of the view has been turned into its error response below the middleware.
get_response(request, id) ==
    IF request.method = "POST"
    THEN create(request, id)
    ELSE [status |-> 200, data |-> [content |-> Field(request.body, "content")],
          raised |-> FALSE, row |-> 0]

\* lines 178-185: requests of other methods and requests without a key are
\* handed to the downstream handler.
middleware_begin(r, request) ==
    /\ pc[r] = "idle"
    /\ IF r = 1 THEN TRUE ELSE pc[r - 1] # "idle"
    /\ req' = [req EXCEPT ![r] = request]
    /\ before' = [before EXCEPT ![r] = {q \in Reqs : Done(q)}]
    /\ pc' = [pc EXCEPT ![r] =
                 IF ~is_idempotent_method(request.method) THEN "mw_pass"
                 ELSE IF NotKey(get_idempotency_key(request)) THEN "mw_pass"
                 ELSE "mw_lookup"]
    /\ UNCHANGED <<cache, written, epoch, post_rows, comment_rows, comments_count,
                   stored, response, ran, created, reads, writes, lapsed, lapsed_before,
                   tl_vars, out_vars, ext_vars>>

\* lines 193-196: JsonResponse(stored["data"], status=stored["status"]) with
\* X-Idempotent-Replayed: true.
middleware_replay(stored_response) ==
    IF stored_response.t = "dict"
    THEN [status |-> stored_response.status, data |-> stored_response.data,
          replayed |-> TRUE]
    ELSE [status |-> 500, data |-> ErrorData("TypeError"), replayed |-> FALSE]

\* lines 188-196: stored = get_idempotent_response(idempotency_key); a truthy
\* value is replayed.
middleware_lookup(r) ==
    /\ pc[r] = "mw_lookup"
    /\ LET v == cache_get(get_cache_key(get_idempotency_key(req[r]))) IN
        /\ stored' = [stored EXCEPT ![r] = v]
        /\ IF Truthy(v)
           THEN /\ response' = [response EXCEPT ![r] = middleware_replay(v)]
                /\ pc' = [pc EXCEPT ![r] = "done"]
           ELSE /\ response' = response
                /\ pc' = [pc EXCEPT ![r] = "mw_call"]
    /\ cache' = cache_after_get(cache, get_cache_key(get_idempotency_key(req[r])))
    /\ reads' = [reads EXCEPT ![r] = @ + 1]
    /\ UNCHANGED <<written, epoch, post_rows, comment_rows, comments_count,
                   req, ran, created, writes, before, lapsed, lapsed_before,
                   tl_vars, out_vars, ext_vars>>

\* lines 179, 185 and 199-202: the downstream handler runs; after a lookup, a
\* 2xx response is to be stored.
middleware_call(r) ==
    /\ pc[r] \in {"mw_pass", "mw_call"}
    /\ LET result == get_response(req[r], r) IN
        /\ post_rows' = IF result.row # 0
                         THEN post_rows \cup {[id |-> r, user |-> req[r].user,
                                               content |-> result.data.content]}
                         ELSE post_rows
        /\ created' = [created EXCEPT ![r] = result.row]
        /\ response' = [response EXCEPT ![r] =
                           [status |-> result.status, data |-> result.data,
                            replayed |-> FALSE]]
        /\ pc' = [pc EXCEPT ![r] = IF pc[r] = "mw_call" /\ Is2xx(result.status)
                                   THEN "mw_store_response" ELSE "done"]
    /\ ran' = [ran EXCEPT ![r] = @ + 1]
    /\ UNCHANGED <<cache, written, epoch, comment_rows, comments_count, req, stored,
                   reads, writes, before, lapsed, lapsed_before,
                   tl_vars, out_vars, ext_vars>>

\* lines 203-211 -> store_idempotent_response, lines 76-82: data is
\* json.loads(response.content); the response entry is written.
middleware_store_response(r) ==
    /\ pc[r] = "mw_store_response"
    /\ LET cache_key == get_cache_key(get_idempotency_key(req[r])) IN
        /\ cache' = cache_set(cache, cache_key,
                              Dict(response[r].data, response[r].status))
        /\ written' = Touch(written, cache_key)
    /\ writes' = [writes EXCEPT ![r] = @ + 1]
    /\ pc' = [pc EXCEPT ![r] = "mw_store_fingerprint"]
    /\ UNCHANGED <<epoch, post_rows, comment_rows, comments_count, req, stored,
                   response, ran, created, reads, before, lapsed, lapsed_before,
                   tl_vars, out_vars, ext_vars>>

\* store_idempotent_response, line 84, with the fingerprint "" of line 208
\* (the empty string: the empty sequence).
middleware_store_fingerprint(r) ==
    /\ pc[r] = "mw_store_fingerprint"
    /\ LET fingerprint_key == get_fingerprint_key(get_idempotency_key(req[r])) IN
        /\ cache' = cache_set(cache, fingerprint_key, Str(<<>>))
        /\ written' = Touch(written, fingerprint_key)
    /\ writes' = [writes EXCEPT ![r] = @ + 1]
    /\ pc' = [pc EXCEPT ![r] = "done"]
    /\ UNCHANGED <<epoch, post_rows, comment_rows, comments_count, req, stored,
                   response, ran, created, reads, before, lapsed, lapsed_before,
                   tl_vars, out_vars, ext_vars>>

\* POSTs under token x, the requests that race for one record.
RacingRequests == {MwRequest("POST", <<"x">>, b) : b \in {Hello, Different}}

\* Requests through IdempotencyMiddleware: any request arrives when none is in
\* progress, and the first ones may be racing POSTs handled by concurrent workers.
MwNext ==
    \/ \E r \in Reqs, request \in MiddlewareRequests :
           /\ Quiet \/ (r \in ConcurrentReqs /\ request \in RacingRequests)
           /\ middleware_begin(r, request)
    \/ \E r \in Reqs : middleware_lookup(r)
    \/ \E r \in Reqs : middleware_call(r)
    \/ \E r \in Reqs : middleware_store_response(r)
    \/ \E r \in Reqs : middleware_store_fingerprint(r)
    \/ cache_expire

\* The base POST under token x or without a token, sent by either caller.
CallerRequests ==
    {[MwRequest("POST", h, Hello) EXCEPT !.user = u] :
        h \in {NoKey, <<"x">>}, u \in {"u1", "u2"}}

\* Requests of two callers through IdempotencyMiddleware, one at a time.
MwCallersNext ==
    \/ \E r \in Reqs, request \in CallerRequests : Quiet /\ middleware_begin(r, request)
    \/ \E r \in Reqs : middleware_lookup(r)
    \/ \E r \in Reqs : middleware_call(r)
    \/ \E r \in Reqs : middleware_store_response(r)
    \/ \E r \in Reqs : middleware_store_fingerprint(r)
    \/ cache_expire

\* ------------------------------------------------------------------ like toggle

\* PostService.toggle_like runs in one transaction (@transaction.atomic) of the
\* relational store at its default isolation (read committed): a statement sees
\* the committed rows and the transaction's own writes; an INSERT or DELETE that
\* meets an uncommitted write of the same row, and an UPDATE that meets a locked
\* row, wait for the other transaction to end.

NoLike == [id |-> 0, user |-> "", post |-> ""]
NoResult == [liked |-> FALSE, likes_count |-> 0, status |-> 0]

Open(c) == tl_pc[c] \notin {"idle", "done"}

\* Like rows of (user, post) among `rows`: at most one (unique_user_post_like).
RowsOf(rows, user, post) == {l \in rows : l.user = user /\ l.post = post}

\* The rows transaction c reads.
Visible(c) == (likes \ tl_del[c]) \cup tl_ins[c]

\* likes_count delta of the UPDATE statement, lines 82 and 87.
always_plus_one(was_created) == 1
delta(was_created) == IF was_created THEN 1 ELSE -1

\* F("likes_count") + delta is evaluated by the store on the row it has locked.
no_row_lock(p, c) == TRUE
row_lock_free(p, c) == row_lock[p] = 0 \/ row_lock[p] = c

\* Rows removed by like.delete() (DELETE ... WHERE id = like.id), line 86.
delete_nothing(like) == {}
deleted_rows(like) == {l \in likes : l = like}

\* The view's call of toggle_like(user, post), line 68.
toggle_like_begin(c, user, post) ==
    /\ tl_pc[c] = "idle"
    /\ IF c = 1 THEN TRUE ELSE tl_pc[c - 1] # "idle"
    /\ tl_arg' = [tl_arg EXCEPT ![c] = [user |-> user, post |-> post]]
    /\ tl_before' = [tl_before EXCEPT ![c] = {d \in Calls : tl_pc[d] = "done"}]
    /\ tl_start' = [tl_start EXCEPT ![c] =
                       [liked |-> RowsOf(likes, user, post) # {},
                        likes_count |-> likes_count[post]]]
    /\ tl_pc' = [tl_pc EXCEPT ![c] = "get"]
    /\ UNCHANGED <<likes, likes_count, row_lock, tl_like, tl_ins, tl_del, tl_count,
                   tl_result, count0, gw_vars, out_vars, ext_vars>>

\* line 79, get_or_create: the lookup.
get_or_create_get(c) ==
    /\ tl_pc[c] = "get"
    /\ LET found == RowsOf(Visible(c), tl_arg[c].user, tl_arg[c].post) IN
        IF found # {}
        THEN /\ tl_like' = [tl_like EXCEPT ![c] = CHOOSE l \in found : TRUE]
             /\ tl_pc' = [tl_pc EXCEPT ![c] = "delete"]
        ELSE /\ tl_like' = tl_like
             /\ tl_pc' = [tl_pc EXCEPT ![c] = "create"]
    /\ UNCHANGED <<likes, likes_count, row_lock, tl_arg, tl_ins, tl_del, tl_count,
                   tl_result, tl_before, tl_start, count0, gw_vars, out_vars, ext_vars>>

\* Another open transaction has written (inserted or deleted) a row of (user, post).
PendingWrite(c, user, post) ==
    \E d \in Calls \ {c} :
        Open(d) /\ RowsOf(tl_ins[d] \cup tl_del[d], user, post) # {}

\* line 79, get_or_create: the INSERT after the lookup found nothing.  On a
\* unique violation (IntegrityError) get_or_create looks the row up again.
get_or_create_create(c) ==
    /\ tl_pc[c] = "create"
    /\ ~PendingWrite(c, tl_arg[c].user, tl_arg[c].post)
    /\ IF RowsOf(likes, tl_arg[c].user, tl_arg[c].post) # {}
       THEN /\ tl_pc' = [tl_pc EXCEPT ![c] = "reget"]
            /\ UNCHANGED <<tl_ins, tl_like>>
       ELSE LET like == [id |-> c, user |-> tl_arg[c].user, post |-> tl_arg[c].post] IN
            /\ tl_ins' = [tl_ins EXCEPT ![c] = {like}]
            /\ tl_like' = [tl_like EXCEPT ![c] = like]
            /\ tl_pc' = [tl_pc EXCEPT ![c] = "update"]
    /\ UNCHANGED <<likes, likes_count, row_lock, tl_arg, tl_del, tl_count,
                   tl_result, tl_before, tl_start, count0, gw_vars, out_vars, ext_vars>>

\* get_or_create after IntegrityError: the row is read again; if it is gone
\* the IntegrityError is raised again and the transaction is rolled back.
get_or_create_reget(c) ==
    /\ tl_pc[c] = "reget"
    /\ LET found == RowsOf(Visible(c), tl_arg[c].user, tl_arg[c].post) IN
        IF found # {}
        THEN /\ tl_like' = [tl_like EXCEPT ![c] = CHOOSE l \in found : TRUE]
             /\ tl_pc' = [tl_pc EXCEPT ![c] = "delete"]
             /\ tl_result' = tl_result
        ELSE /\ tl_like' = tl_like
             /\ tl_pc' = [tl_pc EXCEPT ![c] = "done"]
             /\ tl_result' = [tl_result EXCEPT ![c] = [NoResult EXCEPT !.status = 500]]
    /\ UNCHANGED <<likes, likes_count, row_lock, tl_arg, tl_ins, tl_del, tl_count,
                   tl_before, tl_start, count0, gw_vars, out_vars, ext_vars>>

\* line 86: like.delete().  A row another transaction is deleting is waited for;
\* a row that is gone deletes nothing.
like_delete(c) ==
    /\ tl_pc[c] = "delete"
    /\ \A d \in Calls \ {c} : ~(Open(d) /\ tl_like[c] \in tl_del[d])
    /\ tl_del' = [tl_del EXCEPT ![c] = deleted_rows(tl_like[c])]
    /\ tl_pc' = [tl_pc EXCEPT ![c] = "update"]
    /\ UNCHANGED <<likes, likes_count, row_lock, tl_arg, tl_like, tl_ins, tl_count,
                   tl_result, tl_before, tl_start, count0, gw_vars, out_vars, ext_vars>>

\* lines 82-84 and 87-89: UPDATE likes_count = F("likes_count") +/- 1 locks the
\* Post row, refresh_from_db reads the value back.  likes_count is a
\* PositiveIntegerField: a negative value violates its check and the
\* IntegrityError rolls the transaction back.
update_likes_count(c) ==
    /\ tl_pc[c] = "update"
    /\ row_lock_free(tl_arg[c].post, c)
    /\ LET post == tl_arg[c].post
           value == likes_count[post] + delta(tl_ins[c] # {})
       IN IF value < 0
          THEN /\ tl_ins' = [tl_ins EXCEPT ![c] = {}]
               /\ tl_del' = [tl_del EXCEPT ![c] = {}]
               /\ tl_result' = [tl_result EXCEPT ![c] = [NoResult EXCEPT !.status = 500]]
               /\ tl_pc' = [tl_pc EXCEPT ![c] = "done"]
               /\ UNCHANGED <<row_lock, tl_count>>
          ELSE /\ row_lock' = [row_lock EXCEPT ![post] = c]
               /\ tl_count' = [tl_count EXCEPT ![c] = value]
               /\ tl_result' = [tl_result EXCEPT ![c] =
                                   [liked |-> tl_ins[c] # {}, likes_count |-> value,
                                    status |-> 200]]
               /\ tl_pc' = [tl_pc EXCEPT ![c] = "commit"]
               /\ UNCHANGED <<tl_ins, tl_del>>
    /\ UNCHANGED <<likes, likes_count, tl_arg, tl_like, tl_before, tl_start,
                   count0, gw_vars, out_vars, ext_vars>>

\* @transaction.atomic, line 67: the transaction commits when toggle_like returns.
toggle_like_commit(c) ==
    /\ tl_pc[c] = "commit"
    /\ likes' = (likes \ tl_del[c]) \cup tl_ins[c]
    /\ likes_count' = [likes_count EXCEPT ![tl_arg[c].post] = tl_count[c]]
    /\ row_lock' = [row_lock EXCEPT ![tl_arg[c].post] = 0]
    /\ tl_ins' = [tl_ins EXCEPT ![c] = {}]
    /\ tl_del' = [tl_del EXCEPT ![c] = {}]
    /\ tl_pc' = [tl_pc EXCEPT ![c] = "done"]
    /\ UNCHANGED <<tl_arg, tl_like, tl_count, tl_result, tl_before, tl_start,
                   count0, gw_vars, out_vars, ext_vars>>

\* The committed Like rows after the transaction of c has ended without a
\* commit: @transaction.atomic rolls back what the call has written.
row_writes_kept(c) == (likes \ tl_del[c]) \cup tl_ins[c]
rolled_back(c) == likes

\* An exception inside toggle_like once the call has written the Like row (the
\* store refuses the UPDATE or loses the connection, refresh_from_db fails):
\* the transaction is rolled back, the row lock it holds is released and the
\* request ends with a 500.  Before the first write there is nothing to roll
\* back.
toggle_like_fail(c) ==
    /\ tl_pc[c] \in {"update", "commit"}
    /\ likes' = rolled_back(c)
    /\ row_lock' = [p \in Posts |-> IF row_lock[p] = c THEN 0 ELSE row_lock[p]]
    /\ tl_ins' = [tl_ins EXCEPT ![c] = {}]
    /\ tl_del' = [tl_del EXCEPT ![c] = {}]
    /\ tl_result' = [tl_result EXCEPT ![c] = [NoResult EXCEPT !.status = 500]]
    /\ tl_pc' = [tl_pc EXCEPT ![c] = "done"]
    /\ UNCHANGED <<likes_count, tl_arg, tl_like, tl_count, tl_before, tl_start,
                   count0, gw_vars, out_vars, ext_vars>>

\* A caller has a toggle_like call in progress.
CallerBusy(user) == \E d \in Calls : Open(d) /\ tl_arg[d].user = user

TlInit ==
    /\ \E L \in SUBSET (LikeUsers \X Posts) :
          /\ likes = {[id |-> 0, user |-> x[1], post |-> x[2]] : x \in L}
          /\ likes_count = [p \in Posts |-> Cardinality({x \in L : x[2] = p})]
          /\ count0 = [p \in Posts |-> Cardinality({x \in L : x[2] = p})]
    /\ row_lock = [p \in Posts |-> 0]
    /\ tl_pc = [c \in Calls |-> "idle"]
    /\ tl_arg = [c \in Calls |-> [user |-> "", post |-> ""]]
    /\ tl_like = [c \in Calls |-> NoLike]
    /\ tl_ins = [c \in Calls |-> {}]
    /\ tl_del = [c \in Calls |-> {}]
    /\ tl_count = [c \in Calls |-> 0]
    /\ tl_result = [c \in Calls |-> NoResult]
    /\ tl_before = [c \in Calls |-> {}]
    /\ tl_start = [c \in Calls |-> [liked |-> FALSE, likes_count |-> 0]]

\* Calls of toggle_like, interleaved freely.
TlNext ==
    \/ \E c \in Calls, u \in LikeUsers, p \in Posts : toggle_like_begin(c, u, p)
    \/ \E c \in Calls : get_or_create_get(c)
    \/ \E c \in Calls : get_or_create_create(c)
    \/ \E c \in Calls : get_or_create_reget(c)
    \/ \E c \in Calls : like_delete(c)
    \/ \E c \in Calls : update_likes_count(c)
    \/ \E c \in Calls : toggle_like_commit(c)

\* Calls of toggle_like whose concurrent calls come from different callers: a
\* caller issues its next call after its previous one has returned.
TlDistinctNext ==
    \/ \E c \in Calls, u \in LikeUsers, p \in Posts :
           ~CallerBusy(u) /\ toggle_like_begin(c, u, p)
    \/ \E c \in Calls : get_or_create_get(c)
    \/ \E c \in Calls : get_or_create_create(c)
    \/ \E c \in Calls : like_delete(c)
    \/ \E c \in Calls : update_likes_count(c)
    \/ \E c \in Calls : toggle_like_commit(c)

\* Calls of different concurrent callers, any of which may fail at any statement.
TlFailNext ==
    \/ \E c \in Calls, u \in LikeUsers, p \in Posts :
           ~CallerBusy(u) /\ toggle_like_begin(c, u, p)
    \/ \E c \in Calls : get_or_create_get(c)
    \/ \E c \in Calls : get_or_create_create(c)
    \/ \E c \in Calls : like_delete(c)
    \/ \E c \in Calls : update_likes_count(c)
    \/ \E c \in Calls : toggle_like_commit(c)
    \/ \E c \in Calls : toggle_like_fail(c)

\* ------------------------------------------------------------------ follow toggle

\* FollowService.toggle_follow runs without a transaction: every statement is
\* committed on its own (autocommit).

NoFollowResult == [following |-> FALSE, followers_count |-> 0, status |-> 0]

\* Follow rows of (follower, following) among `rows`.
PairRows(rows, follower, following) ==
    {f \in rows : f.follower = follower /\ f.following = following}

\* User.followers_count: self.followers.count().
following_count(rows, user) == Cardinality({f \in rows : f.follower = user})
followers_count(rows, user) == Cardinality({f \in rows : f.following = user})

\* line 27: if follower.id == following.id.
never_self_follow(follower, following) == FALSE
is_self_follow(follower, following) == follower = following

\* Follow.Meta.constraints: unique_follow and no_self_follow; an INSERT that
\* violates one of them raises IntegrityError.
insert_never_violates(rows, follower, following) == FALSE
insert_violates(rows, follower, following) ==
    \/ PairRows(rows, follower, following) # {}
    \/ follower = following

FoOpen(c) == fo_pc[c] \notin {"idle", "done"}

\* FollowViewSet.toggle calls toggle_follow; lines 27-28: a self-follow raises
\* ValueError, which the view turns into a 400.
toggle_follow_begin(c, follower, following) ==
    /\ fo_pc[c] = "idle"
    /\ IF c = 1 THEN TRUE ELSE fo_pc[c - 1] # "idle"
    /\ fo_arg' = [fo_arg EXCEPT ![c] = [follower |-> follower, following |-> following]]
    /\ fo_before' = [fo_before EXCEPT ![c] = {d \in FCalls : fo_pc[d] = "done"}]
    /\ fo_start' = [fo_start EXCEPT ![c] = PairRows(follows, follower, following) # {}]
    /\ IF is_self_follow(follower, following)
       THEN /\ fo_result' = [fo_result EXCEPT ![c] = [NoFollowResult EXCEPT !.status = 400]]
            /\ fo_pc' = [fo_pc EXCEPT ![c] = "done"]
       ELSE /\ fo_result' = fo_result
            /\ fo_pc' = [fo_pc EXCEPT ![c] = "create"]
    /\ UNCHANGED <<follows, fo_ops, gw_vars, tl_vars, out_vars, feed_vars, up_vars, rd_vars>>

\* line 32: Follow.objects.create; lines 34-35: on IntegrityError the
\* except branch is taken.
follow_create(c) ==
    /\ fo_pc[c] = "create"
    /\ IF insert_violates(follows, fo_arg[c].follower, fo_arg[c].following)
       THEN /\ follows' = follows
            /\ fo_result' = [fo_result EXCEPT ![c].following = FALSE]
            /\ fo_pc' = [fo_pc EXCEPT ![c] = "delete"]
       ELSE /\ follows' = follows \cup {[id |-> c, follower |-> fo_arg[c].follower,
                                          following |-> fo_arg[c].following]}
            /\ fo_result' = [fo_result EXCEPT ![c].following = TRUE]
            /\ fo_pc' = [fo_pc EXCEPT ![c] = "count"]
    /\ fo_ops' = [fo_ops EXCEPT ![c] = @ + 1]
    /\ UNCHANGED <<fo_arg, fo_before, fo_start, gw_vars, tl_vars, out_vars, feed_vars, up_vars, rd_vars>>

\* line 36: Follow.objects.filter(follower=..., following=...).delete().
follow_delete(c) ==
    /\ fo_pc[c] = "delete"
    /\ follows' = follows \ PairRows(follows, fo_arg[c].follower, fo_arg[c].following)
    /\ fo_ops' = [fo_ops EXCEPT ![c] = @ + 1]
    /\ fo_pc' = [fo_pc EXCEPT ![c] = "count"]
    /\ UNCHANGED <<fo_arg, fo_result, fo_before, fo_start, gw_vars, tl_vars, out_vars, feed_vars, up_vars, rd_vars>>

\* lines 33 and 37: following.followers_count is read and the pair returned.
follow_count(c) ==
    /\ fo_pc[c] = "count"
    /\ fo_result' = [fo_result EXCEPT ![c] =
                         [following |-> fo_result[c].following,
                          followers_count |-> followers_count(follows, fo_arg[c].following),
                          status |-> 200]]
    /\ fo_ops' = [fo_ops EXCEPT ![c] = @ + 1]
    /\ fo_pc' = [fo_pc EXCEPT ![c] = "done"]
    /\ UNCHANGED <<follows, fo_arg, fo_before, fo_start, gw_vars, tl_vars, out_vars, feed_vars, up_vars, rd_vars>>

\* Follow rows that satisfy the table's constraints.
FollowPairs == {x \in FollowUsers \X FollowUsers : x[1] # x[2]}

FoInit ==
    /\ \E F \in SUBSET FollowPairs :
          follows = {[id |-> 0, follower |-> x[1], following |-> x[2]] : x \in F}
    /\ fo_pc = [c \in FCalls |-> "idle"]
    /\ fo_arg = [c \in FCalls |-> [follower |-> "", following |-> ""]]
    /\ fo_result = [c \in FCalls |-> NoFollowResult]
    /\ fo_ops = [c \in FCalls |-> 0]
    /\ fo_before = [c \in FCalls |-> {}]
    /\ fo_start = [c \in FCalls |-> FALSE]

\* Calls of toggle_follow, interleaved freely.
FoNext ==
    \/ \E c \in FCalls, a \in FollowUsers, b \in FollowUsers : toggle_follow_begin(c, a, b)
    \/ \E c \in FCalls : follow_create(c)
    \/ \E c \in FCalls : follow_delete(c)
    \/ \E c \in FCalls : follow_count(c)

\* The two toggles work on different tables and share no state: a behaviour
\* exercises one of them, calls interleaved freely.
NoFollowCall == \A d \in FCalls : fo_pc[d] = "idle"
NoLikeCall == \A d \in Calls : tl_pc[d] = "idle"

PairsNext ==
    \/ \E c \in Calls, u \in LikeUsers, p \in Posts :
           NoFollowCall /\ toggle_like_begin(c, u, p)
    \/ \E c \in Calls : get_or_create_get(c)
    \/ \E c \in Calls : get_or_create_create(c)
    \/ \E c \in Calls : get_or_create_reget(c)
    \/ \E c \in Calls : like_delete(c)
    \/ \E c \in Calls : update_likes_count(c)
    \/ \E c \in Calls : toggle_like_commit(c)
    \/ \E c \in FCalls, a \in FollowUsers, b \in FollowUsers :
           NoLikeCall /\ toggle_follow_begin(c, a, b)
    \/ \E c \in FCalls : follow_create(c)
    \/ \E c \in FCalls : follow_delete(c)
    \/ \E c \in FCalls : follow_count(c)

\* ------------------------------------------------------------------ feed cache

\* cache_key(*args): ":".join(str(arg) for arg in args), kept as the sequence
\* of the joined segments.
cache_key(args) == args

PageSegment(page) == IF page = 1 THEN "page_1" ELSE "page_2"

\* CacheManager.get_feed_cache_key: cache_key("feed", user_id, f"page_{page}")
get_feed_cache_key(user_id, page) == cache_key(<<"feed", user_id, PageSegment(page)>>)

FeedKeys == {get_feed_cache_key(u, n) : u \in FeedUsers, n \in FeedPages}

\* The name of a cache key in Redis: KEY_PREFIX "sn", version 1, then the key.
make_key(key) == <<"sn", "1">> \o key

\* Redis glob match of `*pattern*`: the pattern occurs somewhere in the name.
matches_nothing(name, pattern) == FALSE
matches(name, pattern) ==
    \E i \in 1..Len(name) :
        /\ i + Len(pattern) - 1 <= Len(name)
        /\ SubSeq(name, i, i + Len(pattern) - 1) = pattern

\* The cached value of a feed page: serializer.data, a list.
List(data) == [t |-> "list", data |-> data]

\* The names present in Redis.
RedisNames ==
    {make_key(k) : k \in {x \in FeedKeys : feed_cache[x] # None}}
    \cup {make_key(k) : k \in {x \in CacheKeys : cache[x] # None}}

\* PostListSerializer(page, many=True).data for the feed of a user who follows
\* the author of every post: each post with the likes_count read by the query.
serializer_data == [i \in 1..1 |-> [id |-> "p1", likes_count |-> likes_count["p1"]]]

\* The pattern of invalidate_feed: f"feed:{user_id}"
feed_pattern(user_id) == cache_key(<<"feed", user_id>>)

\* CacheManager.cache_feed, called by PostViewSet.following after a miss:
\* cache.set(key, data, 60). A SCAN iteration in progress may or may not come
\* across a name added after it started.
cache_feed(user_id, page) ==
    LET key == get_feed_cache_key(user_id, page) IN
    /\ feed_cache' = [feed_cache EXCEPT ![key] = List(serializer_data)]
    /\ \E seen \in SUBSET {i \in ICalls : /\ inv_pc[i] = "scan"
                                          /\ matches(make_key(key), feed_pattern(inv_arg[i]))} :
           scan_todo' = [i \in ICalls |->
                           IF i \in seen THEN scan_todo[i] \cup {make_key(key)}
                           ELSE scan_todo[i]]
    /\ inv_clean' = [i \in ICalls |-> inv_clean[i] /\ inv_arg[i] # user_id]
    /\ UNCHANGED <<redis_import, inv_pc, inv_arg, inv_start, gw_vars, tl_vars, out_vars, fo_vars, up_vars, rd_vars>>

\* A feed page reaches its TTL of 60 seconds.
feed_expire(key) ==
    /\ feed_cache[key] # None
    /\ feed_cache' = [feed_cache EXCEPT ![key] = None]
    /\ UNCHANGED <<redis_import, inv_pc, inv_arg, scan_todo, inv_clean, inv_start,
                   gw_vars, tl_vars, out_vars, fo_vars, up_vars, rd_vars>>

\* CacheManager.invalidate_feed(user_id) -> invalidate_cache_pattern, lines
\* 65-70: the import of django_redis; cursor = 0 starts a SCAN iteration over
\* the names that are in Redis.
invalidate_feed_begin(i, user_id) ==
    /\ inv_pc[i] = "idle"
    /\ inv_arg' = [inv_arg EXCEPT ![i] = user_id]
    /\ inv_clean' = [inv_clean EXCEPT ![i] = TRUE]
    /\ inv_start' = [inv_start EXCEPT ![i] =
                        \A n \in FeedPages : feed_cache[get_feed_cache_key(user_id, n)] # None]
    /\ IF redis_import
       THEN /\ inv_pc' = [inv_pc EXCEPT ![i] = "scan"]
            /\ scan_todo' = [scan_todo EXCEPT ![i] =
                               {n \in RedisNames : matches(n, feed_pattern(user_id))}]
       ELSE /\ inv_pc' = [inv_pc EXCEPT ![i] = "clear"]
            /\ scan_todo' = scan_todo
    /\ UNCHANGED <<feed_cache, redis_import, gw_vars, tl_vars, out_vars, fo_vars, up_vars, rd_vars>>

\* lines 71-76, one turn of the loop: SCAN returns the names that match
\* *feed:<user_id>* in the part of the keyspace it visits, they are deleted,
\* and the loop ends when the cursor is back at 0.
scan_delete(i) ==
    /\ inv_pc[i] = "scan"
    /\ \E keys \in SUBSET scan_todo[i] :
          /\ keys = {} => scan_todo[i] = {}
          /\ feed_cache' = [k \in FeedKeys |->
                              IF make_key(k) \in keys THEN None ELSE feed_cache[k]]
          /\ cache' = [k \in CacheKeys |->
                         IF make_key(k) \in keys THEN None ELSE cache[k]]
          /\ written' = SelectSeq(written, LAMBDA k : make_key(k) \notin keys)
          /\ scan_todo' = [scan_todo EXCEPT ![i] = @ \ keys]
          /\ inv_pc' = [inv_pc EXCEPT ![i] =
                          IF scan_todo[i] \ keys = {} THEN "done" ELSE "scan"]
    /\ UNCHANGED <<redis_import, inv_arg, inv_clean, inv_start, epoch, post_rows,
                   comment_rows, comments_count, pc, req, stored, response, ran, created, reads,
                   writes, before, lapsed, lapsed_before,
                   tl_vars, out_vars, fo_vars, up_vars, rd_vars>>

\* lines 77-79: except ImportError: cache.clear(), every entry of the cache
\* is removed.
cache_clear(i) ==
    /\ inv_pc[i] = "clear"
    /\ feed_cache' = [k \in FeedKeys |-> None]
    /\ cache' = [k \in CacheKeys |-> None]
    /\ written' = <<>>
    /\ inv_pc' = [inv_pc EXCEPT ![i] = "done"]
    /\ UNCHANGED <<redis_import, inv_arg, scan_todo, inv_clean, inv_start, epoch, post_rows,
                   comment_rows, comments_count, pc, req, stored, response, ran,
                   created, reads, writes, before, lapsed, lapsed_before,
                   tl_vars, out_vars, fo_vars, up_vars, rd_vars>>

FeedInit ==
    /\ feed_cache = [k \in FeedKeys |-> None]
    /\ redis_import \in BOOLEAN
    /\ inv_pc = [i \in ICalls |-> "idle"]
    /\ inv_arg = [i \in ICalls |-> ""]
    /\ scan_todo = [i \in ICalls |-> {}]
    /\ inv_clean = [i \in ICalls |-> TRUE]
    /\ inv_start = [i \in ICalls |-> FALSE]

FeedNext ==
    \/ \E u \in FeedUsers, n \in FeedPages : cache_feed(u, n)
    \/ \E k \in FeedKeys : feed_expire(k)
    \/ \E i \in ICalls, u \in FeedUsers : invalidate_feed_begin(i, u)
    \/ \E i \in ICalls : scan_delete(i)
    \/ \E i \in ICalls : cache_clear(i)

\* PostViewSet.like, line 107: after toggle_like has returned, the feed of
\* the caller is invalidated.
like_invalidate_feed(c) ==
    /\ tl_pc[c] = "done"
    /\ tl_result[c].status = 200
    /\ invalidate_feed_begin(c, tl_arg[c].user)

LikeViewCalls == Calls \cap ICalls

\* Like requests of different concurrent callers, each followed by the
\* invalidation of its caller's feed, and feed pages cached and expiring.
LikeViewNext ==
    \/ \E c \in LikeViewCalls, u \in FeedUsers, p \in Posts :
           ~CallerBusy(u) /\ toggle_like_begin(c, u, p)
    \/ \E c \in Calls : get_or_create_get(c)
    \/ \E c \in Calls : get_or_create_create(c)
    \/ \E c \in Calls : like_delete(c)
    \/ \E c \in Calls : update_likes_count(c)
    \/ \E c \in Calls : toggle_like_commit(c)
    \/ \E c \in LikeViewCalls : like_invalidate_feed(c)
    \/ \E i \in ICalls : scan_delete(i)
    \/ \E i \in ICalls : cache_clear(i)
    \/ \E u \in FeedUsers, n \in FeedPages : cache_feed(u, n)
    \/ \E k \in FeedKeys : feed_expire(k)

\* Requests through the gateway, one at a time, and the feed invalidation that
\* PostViewSet.like issues after its toggle_like call (views.py line 107).
RecordsNext ==
    \/ \E r \in ConcurrentReqs, request \in Requests : Quiet /\ wrapper_begin(r, request)
    \/ \E r \in Reqs : wrapper_lookup(r)
    \/ \E r \in Reqs : wrapper_hit(r)
    \/ \E r \in Reqs : wrapper_call(r)
    \/ \E r \in Reqs : store_response(r)
    \/ \E r \in Reqs : store_fingerprint(r)
    \/ cache_expire
    \/ \E i \in ICalls, u \in FeedUsers : invalidate_feed_begin(i, u)
    \/ \E i \in ICalls : scan_delete(i)
    \/ \E i \in ICalls : cache_clear(i)

\* ------------------------------------------------------------------ feed read

\* Post.user of the fixture post.
PostAuthor == [p \in Posts |-> "u2"]

\* request.user.following.values_list("following_id", flat=True)
following_ids(user_id) == {f.following : f \in {g \in follows : g.follower = user_id}}

\* get_queryset().filter(user_id__in=following_ids), paginated and serialized:
\* the posts of the users user_id follows, each with the likes_count the
\* query reads.
following_queryset(user_id) ==
    IF PostAuthor["p1"] \in following_ids(user_id)
    THEN [i \in 1..1 |-> [id |-> "p1", likes_count |-> likes_count["p1"]]]
    ELSE <<>>

\* PostViewSet.following, lines 118-124: get_cached_feed; a page that is in
\* the cache is handed to get_paginated_response, of a paginator whose
\* paginate_queryset has not run for this request: the cached data is
\* rendered, or the rendering fails.
following_begin(r, user_id, page) ==
    LET cached_data == feed_cache[get_feed_cache_key(user_id, page)] IN
    /\ rd_pc[r] = "idle"
    /\ IF r = 1 THEN TRUE ELSE rd_pc[r - 1] # "idle"
    /\ rd_arg' = [rd_arg EXCEPT ![r] = [user |-> user_id, page |-> page]]
    /\ rd_before' = [rd_before EXCEPT ![r] = {c \in FCalls : fo_pc[c] = "done"}]
    /\ IF cached_data # None
       THEN /\ rd_data' = [rd_data EXCEPT ![r] = cached_data.data]
            /\ \E code \in {200, 500} : rd_status' = [rd_status EXCEPT ![r] = code]
            /\ rd_pc' = [rd_pc EXCEPT ![r] = "done"]
       ELSE /\ rd_pc' = [rd_pc EXCEPT ![r] = "query"]
            /\ UNCHANGED <<rd_data, rd_status>>
    /\ UNCHANGED <<gw_vars, tl_vars, out_vars, fo_vars, feed_vars, up_vars>>

\* lines 127-132: the query and the serialization of the page. The fixture
\* has fewer posts than one page holds (page_size 20), so a page after the
\* first is not found.
following_query(r) ==
    /\ rd_pc[r] = "query"
    /\ IF rd_arg[r].page > 1
       THEN /\ rd_status' = [rd_status EXCEPT ![r] = 404]
            /\ rd_pc' = [rd_pc EXCEPT ![r] = "done"]
            /\ UNCHANGED rd_data
       ELSE /\ rd_data' = [rd_data EXCEPT ![r] = following_queryset(rd_arg[r].user)]
            /\ rd_pc' = [rd_pc EXCEPT ![r] = "set"]
            /\ UNCHANGED rd_status
    /\ UNCHANGED <<rd_arg, rd_before, gw_vars, tl_vars, out_vars, fo_vars, feed_vars, up_vars>>

\* lines 135-137: CacheManager.cache_feed(user_id, serializer.data, page, 60)
\* stores the serialized page, and the response is returned.
following_cache_feed(r) ==
    LET key == get_feed_cache_key(rd_arg[r].user, rd_arg[r].page) IN
    /\ rd_pc[r] = "set"
    /\ feed_cache' = [feed_cache EXCEPT ![key] = List(rd_data[r])]
    /\ \E seen \in SUBSET {i \in ICalls : /\ inv_pc[i] = "scan"
                                          /\ matches(make_key(key), feed_pattern(inv_arg[i]))} :
           scan_todo' = [i \in ICalls |->
                           IF i \in seen THEN scan_todo[i] \cup {make_key(key)}
                           ELSE scan_todo[i]]
    /\ inv_clean' = [i \in ICalls |-> inv_clean[i] /\ inv_arg[i] # rd_arg[r].user]
    /\ rd_status' = [rd_status EXCEPT ![r] = 200]
    /\ rd_pc' = [rd_pc EXCEPT ![r] = "done"]
    /\ UNCHANGED <<rd_arg, rd_data, rd_before, redis_import, inv_pc, inv_arg, inv_start,
                   gw_vars, tl_vars, out_vars, fo_vars, up_vars>>

RdInit ==
    /\ rd_pc = [r \in Reads |-> "idle"]
    /\ rd_arg = [r \in Reads |-> [user |-> "", page |-> 1]]
    /\ rd_data = [r \in Reads |-> <<>>]
    /\ rd_status = [r \in Reads |-> 0]
    /\ rd_before = [r \in Reads |-> {}]

\* Reads of the following feed beside like requests of the feeds' owners,
\* each like followed by the invalidation of its caller's feed.
FeedRaceNext ==
    \/ \E r \in Reads, u \in FeedUsers, n \in FeedPages : following_begin(r, u, n)
    \/ \E r \in Reads : following_query(r)
    \/ \E r \in Reads : following_cache_feed(r)
    \/ \E c \in LikeViewCalls, u \in FeedUsers, p \in Posts :
           ~CallerBusy(u) /\ toggle_like_begin(c, u, p)
    \/ \E c \in Calls : get_or_create_get(c)
    \/ \E c \in Calls : get_or_create_create(c)
    \/ \E c \in Calls : like_delete(c)
    \/ \E c \in Calls : update_likes_count(c)
    \/ \E c \in Calls : toggle_like_commit(c)
    \/ \E c \in LikeViewCalls : like_invalidate_feed(c)
    \/ \E i \in ICalls : scan_delete(i)
    \/ \E i \in ICalls : cache_clear(i)

\* Reads of the following feed beside follow toggles.
FollowFeedNext ==
    \/ \E r \in Reads, u \in FeedUsers, n \in FeedPages : following_begin(r, u, n)
    \/ \E r \in Reads : following_query(r)
    \/ \E r \in Reads : following_cache_feed(r)
    \/ \E c \in FCalls, a \in FollowUsers, b \in FollowUsers : toggle_follow_begin(c, a, b)
    \/ \E c \in FCalls : follow_create(c)
    \/ \E c \in FCalls : follow_delete(c)
    \/ \E c \in FCalls : follow_count(c)
    \/ \E k \in FeedKeys : feed_expire(k)

\* Requests under the token "feed:u1", and one under the token "x".
FeedTokenRequests ==
    {Request(FeedToken, Shape(PostsPath, Hello, "u2")),
     Request(<<"x">>, Shape(PostsPath, Hello, "u1"))}

\* No read of the feed and no feed invalidation is in progress.
FeedQuiet ==
    /\ \A r \in Reads : rd_pc[r] \in {"idle", "done"}
    /\ \A i \in ICalls : inv_pc[i] \in {"idle", "done"}

\* Feed invalidations by pattern deletion and what fills the cache (reads of
\* the following feed, requests through the gateway), one operation at a time.
ScopedNext ==
    \/ \E r \in Reads, u \in FeedUsers, n \in FeedPages :
           Quiet /\ FeedQuiet /\ following_begin(r, u, n)
    \/ \E r \in Reads : following_query(r)
    \/ \E r \in Reads : following_cache_feed(r)
    \/ \E r \in ConcurrentReqs, request \in FeedTokenRequests :
           Quiet /\ FeedQuiet /\ wrapper_begin(r, request)
    \/ \E r \in Reqs : wrapper_lookup(r)
    \/ \E r \in Reqs : wrapper_hit(r)
    \/ \E r \in Reqs : wrapper_call(r)
    \/ \E r \in Reqs : store_response(r)
    \/ \E r \in Reqs : store_fingerprint(r)
    \/ \E i \in ICalls, u \in FeedUsers :
           Quiet /\ FeedQuiet /\ invalidate_feed_begin(i, u)
    \/ \E i \in ICalls : scan_delete(i)

\* ------------------------------------------------------------------ post update

Contents == {"hello", "bye"}

\* update_fields=["content", "metadata", "updated_at"]: the UPDATE statement
\* sets those columns and leaves likes_count as it is in the table.
save_all_fields(count, row) == [count EXCEPT ![row.post] = row.likes_count]
save_update_fields(count, row) == count

\* PostViewSet.perform_update, self.get_object(): the row is loaded.
update_begin(p, content) ==
    /\ up_pc = "idle"
    /\ up_row' = [post |-> p, content |-> post_content[p],
                  likes_count |-> likes_count[p], new |-> content]
    /\ up_pc' = "loaded"
    /\ UNCHANGED <<post_content, gw_vars, tl_vars, out_vars, fo_vars, feed_vars, rd_vars>>

\* PostService.update_post: the save, a single autocommitted UPDATE that
\* waits for the row lock of an open like transaction.
update_post ==
    /\ up_pc = "loaded"
    /\ row_lock[up_row.post] = 0
    /\ IF up_row.new # up_row.content
       THEN /\ post_content' = [post_content EXCEPT ![up_row.post] = Strip(up_row.new)]
            /\ likes_count' = save_update_fields(likes_count, up_row)
       ELSE UNCHANGED <<post_content, likes_count>>
    /\ up_pc' = "done"
    /\ UNCHANGED <<up_row, likes, row_lock, tl_pc, tl_arg, tl_like, tl_ins, tl_del,
                   tl_count, tl_result, tl_before, tl_start, count0,
                   gw_vars, out_vars, fo_vars, feed_vars, rd_vars>>

UpInit ==
    /\ post_content = [p \in Posts |-> "hello"]
    /\ up_pc = "idle"
    /\ up_row = [post |-> "p1", content |-> "hello", likes_count |-> 0, new |-> "hello"]

UpNext ==
    \/ \E p \in Posts, content \in Contents : update_begin(p, content)
    \/ update_post

\* Every operation of the API that writes: like toggles of different callers
\* interleaved with a post update (both work on the Post row), or follow
\* toggles, or post and comment creation and comment deletion (other tables).
NoGatewayCall == \A q \in Reqs : pc[q] = "idle"

MutationsNext ==
    \/ \E c \in Calls, u \in LikeUsers, p \in Posts :
           NoFollowCall /\ NoGatewayCall /\ ~CallerBusy(u) /\ toggle_like_begin(c, u, p)
    \/ \E c \in Calls : get_or_create_get(c)
    \/ \E c \in Calls : get_or_create_create(c)
    \/ \E c \in Calls : like_delete(c)
    \/ \E c \in Calls : update_likes_count(c)
    \/ \E c \in Calls : toggle_like_commit(c)
    \/ \E p \in Posts, content \in Contents :
           NoFollowCall /\ NoGatewayCall /\ update_begin(p, content)
    \/ update_post
    \/ \E c \in FCalls, a \in FollowUsers, b \in FollowUsers :
           NoLikeCall /\ NoGatewayCall /\ up_pc = "idle" /\ toggle_follow_begin(c, a, b)
    \/ \E c \in FCalls : follow_create(c)
    \/ \E c \in FCalls : follow_delete(c)
    \/ \E c \in FCalls : follow_count(c)
    \/ \E r \in ConcurrentReqs, request \in Requests :
           NoLikeCall /\ NoFollowCall /\ up_pc = "idle" /\ Quiet /\ wrapper_begin(r, request)
    \/ \E r \in Reqs : wrapper_lookup(r)
    \/ \E r \in Reqs : wrapper_hit(r)
    \/ \E r \in Reqs : wrapper_call(r)
    \/ \E r \in Reqs : store_response(r)
    \/ \E r \in Reqs : store_fingerprint(r)
    \/ \E comment \in comment_rows : Quiet /\ comment_delete(comment)

\* ------------------------------------------------------------------ properties

HasKey(r) == req[r].header # NoKey

SameKey(r1, r2) == HasKey(r1) /\ get_idempotency_key(req[r1]) = get_idempotency_key(req[r2])

SameFingerprint(r1, r2) ==
    generate_request_fingerprint(req[r1]) = generate_request_fingerprint(req[r2])

Started(r) == pc[r] # "idle"

\* The requests so far were handled one at a time: none arrived while another
\* was in progress.
Sequential ==
    \A a \in Reqs, b \in Reqs :
        (a # b /\ Started(a) /\ Started(b)) => (a \in before[b] \/ b \in before[a])

\* r1 and r2 have completed, r2 arrived after r1 had completed, and all requests
\* were handled one at a time.
Consecutive(r1, r2) ==
    /\ r1 # r2
    /\ Done(r1) /\ Done(r2)
    /\ r1 \in before[r2]
    /\ Sequential

\* r2 is the next request after r1 that carries r1's token.
Retry(r1, r2) ==
    /\ Consecutive(r1, r2)
    /\ SameKey(r1, r2)
    /\ \A r3 \in Reqs \ {r1, r2} :
          (r1 \in before[r3] /\ r3 \in before[r2]) => ~SameKey(r1, r3)

\* r ran the handler and recorded its result (both entries written).
Recorded(r) == Done(r) /\ ran[r] = 1 /\ writes[r] = 2

\* The response of the handler for r.
HandlerResponse(r) ==
    [status |-> create(req[r], r).status, data |-> create(req[r], r).data,
     replayed |-> FALSE]

\* C1 (sequential replay): with requests handled one at a time, when a request
\* with token t has run the handler with a 2xx result and recorded it, and a
\* later request carries t and the same fingerprint and arrives before the
\* record expires, the later response has the status and payload of the first,
\* carries X-Idempotent-Replayed: true, and the handler does not run for it
\* (nothing more is persisted).
C1_SequentialReplay ==
    \A r1 \in Reqs, r2 \in Reqs :
        ( /\ Consecutive(r1, r2)
          /\ SameKey(r1, r2)
          /\ SameFingerprint(r1, r2)
          /\ Recorded(r1)
          /\ Is2xx(response[r1].status)
          /\ ~lapsed[r1] )
        => /\ response[r2].status = response[r1].status
           /\ response[r2].data = response[r1].data
           /\ response[r2].replayed
           /\ ran[r2] = 0
           /\ created[r2] = 0
           /\ Cardinality(post_rows) + Cardinality(comment_rows)
                = Cardinality({r \in Reqs : created[r] # 0})

\* C2 (sequential conflict): with requests handled one at a time, when a request
\* with token t has run the handler and recorded its result, and a later request
\* carries t with a different body and arrives before the record expires, it is
\* answered with 409 IDEMPOTENCY_CONFLICT and the handler does not run for it.
C2_SequentialConflict ==
    \A r1 \in Reqs, r2 \in Reqs :
        ( /\ Consecutive(r1, r2)
          /\ SameKey(r1, r2)
          /\ req[r1].body # req[r2].body
          /\ Recorded(r1)
          /\ ~lapsed[r1] )
        => /\ response[r2].status = 409
           /\ response[r2].data = ErrorData("IDEMPOTENCY_CONFLICT")
           /\ ~response[r2].replayed
           /\ ran[r2] = 0
           /\ created[r2] = 0

C2_Witness ==
    \E r1 \in Reqs, r2 \in Reqs :
        /\ Consecutive(r1, r2) /\ SameKey(r1, r2)
        /\ req[r1].body # req[r2].body
        /\ Recorded(r1) /\ ~lapsed[r1]
        /\ response[r2].status = 409
        /\ Cardinality(post_rows) = 1

\* r found a stored result for its token and took the hit path.
TookHitPath(r) == Done(r) /\ HasKey(r) /\ reads[r] = 2 /\ ran[r] = 0

\* C18 (mismatch detected on a hit): a request that finds a stored result for
\* its token, written by a request with the same token and a different
\* fingerprint, is answered with the 409 conflict and not with a replay of the
\* stored result, also when it reads between the two store writes.
C18_MismatchOnHit ==
    \A r1 \in Reqs, r2 \in Reqs :
        ( /\ r1 # r2
          /\ TookHitPath(r2)
          /\ SameKey(r1, r2)
          /\ ~SameFingerprint(r1, r2)
          /\ writes[r1] >= 1 )
        => /\ response[r2].status = 409
           /\ ~response[r2].replayed

\* C20 (linearizable replay): once a request has recorded its result for a
\* token, every request with that token that starts afterwards, the record not
\* expired, takes the hit path, is answered with a replay or with the conflict,
\* and the handler does not run for it.
C20_LinearizableReplay ==
    \A r1 \in Reqs, r2 \in Reqs :
        ( /\ r1 # r2
          /\ Done(r2)
          /\ r1 \in before[r2]
          /\ SameKey(r1, r2)
          /\ Recorded(r1)
          /\ ~lapsed[r1] )
        => /\ TookHitPath(r2)
           /\ created[r2] = 0
           /\ response[r2].replayed \/ response[r2].status = 409

\* C22 (records removed only by expiry): an idempotency entry that is present
\* disappears in a step of TTL expiry only; a feed invalidation, by pattern
\* deletion or by the full clear, leaves every entry in place.
C22_RemovedOnlyByExpiry ==
    [][ (\E k \in CacheKeys : cache[k] # None /\ cache'[k] = None)
        => epoch' = epoch + 1 ]_vars

\* r1 recorded its result, the next request r2 met a conflict on r1's token,
\* and the request after it, r3, carries r1's token and r1's fingerprint;
\* nothing of r1 has expired.
AfterConflict(r1, r2, r3) ==
    /\ response[r2].status = 409
    /\ Done(r3)
    /\ SameKey(r1, r2) /\ SameKey(r1, r3)
    /\ SameFingerprint(r1, r3)
    /\ Recorded(r1) /\ ~lapsed[r1]
    /\ Consecutive(r1, r2) /\ Consecutive(r2, r3)
    /\ \A r4 \in Reqs \ {r1, r2, r3} :
          Started(r4) => (r4 \in before[r1] \/ r3 \in before[r4])

\* C23 (hit path is read-only): a step of a request on the hit path (the
\* lookup of the stored result, the read of the stored fingerprint, the replay
\* or the conflict) changes no cache entry and no entry's expiry; after a
\* conflict, a request with the original fingerprint still gets the original
\* result as a replay.
C23_HitPathReadOnly ==
    /\ [][ \A r \in Reqs :
              (pc[r] \in {"lookup", "hit"} /\ pc'[r] \in {"hit", "done"} /\ pc'[r] # pc[r])
              => (cache' = cache /\ written' = written) ]_vars
    /\ [](\A r1 \in Reqs, r2 \in Reqs, r3 \in Reqs :
              AfterConflict(r1, r2, r3)
              => /\ response[r3].replayed
                 /\ response[r3].status = response[r1].status
                 /\ response[r3].data = response[r1].data)

C23_Witness ==
    \E r1 \in Reqs, r2 \in Reqs, r3 \in Reqs :
        /\ AfterConflict(r1, r2, r3)
        /\ response[r3].replayed /\ response[r3].status = 201
        /\ response[r3].data = response[r1].data

\* r1 recorded its result, an entry of the record expired, and r2 is the first
\* request to arrive after the expiry with r1's token: every other request with
\* the token either did not run the handler or came after r2.
FirstAfterExpiry(r1, r2) ==
    /\ r1 # r2
    /\ Done(r2)
    /\ SameKey(r1, r2)
    /\ Recorded(r1)
    /\ r1 \in before[r2] /\ r1 \in lapsed_before[r2]
    /\ \A r3 \in Reqs \ {r1, r2} :
          (Started(r3) /\ SameKey(r1, r3)) => (ran[r3] = 0 \/ r2 \in before[r3])

\* C24 (expiry frees the token): the first request that carries a token after
\* the token's record has expired is handled as a first request, whatever its
\* fingerprint: the handler runs, the answer is not a conflict, and a 2xx
\* result is recorded again.
C24_ExpiryFreesToken ==
    \A r1 \in Reqs, r2 \in Reqs :
        FirstAfterExpiry(r1, r2)
        => /\ ran[r2] = 1
           /\ response[r2] = HandlerResponse(r2)
           /\ Is2xx(response[r2].status) => writes[r2] = 2

\* C3 (concurrent collapse): of the requests that carry the same token and the
\* same fingerprint, in any interleaving and with no record expired, at most
\* one has its mutation applied.
C3_ConcurrentCollapse ==
    \A r1 \in Reqs, r2 \in Reqs :
        ( /\ r1 # r2
          /\ SameKey(r1, r2)
          /\ SameFingerprint(r1, r2)
          /\ epoch = 0 )
        => ~(created[r1] # 0 /\ created[r2] # 0)

\* C7 (record uniqueness): while nothing has expired, once the stored result and
\* the stored fingerprint of a token are both present, no step replaces either
\* of them.
C7_RecordUniqueness ==
    [][\A key \in Tokens :
          ( /\ epoch' = 0
            /\ cache[get_cache_key(key)].t = "dict"
            /\ cache[get_fingerprint_key(key)].t = "str" )
          => /\ cache'[get_cache_key(key)] = cache[get_cache_key(key)]
             /\ cache'[get_fingerprint_key(key)] = cache[get_fingerprint_key(key)]]_vars

\* C8 (distinct tokens): two requests with different tokens and the same valid
\* method, path, body and caller, whose tokens no other request carries, are
\* both executed by the handler with a 201 result and persist two different
\* entities; neither is a replay or a conflict.
C8_DistinctTokens ==
    \A r1 \in Reqs, r2 \in Reqs :
        ( /\ Done(r1) /\ Done(r2)
          /\ HasKey(r1) /\ HasKey(r2)
          /\ get_idempotency_key(req[r1]) # get_idempotency_key(req[r2])
          /\ SameFingerprint(r1, r2)
          /\ validate_content(Field(req[r1].body, "content"))
          /\ \A r3 \in Reqs \ {r1, r2} :
                Started(r3) => get_idempotency_key(req[r3])
                                 \notin {get_idempotency_key(req[r1]),
                                         get_idempotency_key(req[r2])} )
        => /\ ran[r1] = 1 /\ ran[r2] = 1
           /\ response[r1].status = 201 /\ response[r2].status = 201
           /\ ~response[r1].replayed /\ ~response[r2].replayed
           /\ created[r1] # 0 /\ created[r2] # 0 /\ created[r1] # created[r2]

\* C9 (no token): a request without a token runs the handler once and returns
\* its result, and makes no cache.get and no cache.set.
C9_NoToken ==
    \A r \in Reqs :
        (Done(r) /\ ~HasKey(r))
        => /\ ran[r] = 1
           /\ response[r] = HandlerResponse(r)
           /\ reads[r] = 0
           /\ writes[r] = 0

C9_Witness ==
    \E r \in Reqs :
        /\ Done(r) /\ ~HasKey(r)
        /\ response[r].status = 201
        /\ \E k \in CacheKeys : cache[k] # None
        /\ \E q \in Reqs : q \in before[r] /\ Recorded(q)

\* C10 (failures are not recorded): when a request with a token misses the
\* store and the handler fails (non-2xx or raised), the caller gets the
\* handler's error as it is, the request writes nothing to the store, and the
\* next request with the same token runs the handler again and is no replay.
C10_FailuresNotRecorded ==
    \A r1 \in Reqs :
        (Done(r1) /\ HasKey(r1) /\ ran[r1] = 1 /\ ~Is2xx(create(req[r1], r1).status))
        => /\ response[r1] = HandlerResponse(r1)
           /\ writes[r1] = 0
           /\ \A r2 \in Reqs :
                 Retry(r1, r2)
                 => (ran[r2] = 1 /\ ~response[r2].replayed
                     /\ response[r2] = HandlerResponse(r2))

\* C11 (store write failure): a request with a token whose handler returned a
\* 2xx result gets the handler's result, also when a write of the idempotency
\* record fails because the cache is unreachable.
C11_StoreWriteFailure ==
    \A r \in Reqs :
        ( /\ Done(r) /\ HasKey(r)
          /\ ran[r] = 1
          /\ Is2xx(create(req[r], r).status)
          /\ fault[r] \in {"store_response", "store_fingerprint"} )
        => response[r] = HandlerResponse(r)

\* C12 (store lookup failure): a request whose lookup of the idempotency record
\* fails is handled as on a miss: the handler runs and its result is returned.
C12_StoreLookupFailure ==
    \A r \in Reqs :
        (Done(r) /\ HasKey(r) /\ fault[r] = "lookup")
        => (ran[r] = 1 /\ response[r] = HandlerResponse(r))

\* C13 (comment-counter invariant): whenever no request is in progress, after any
\* creations and deletions of comments, comments_count of a post equals the
\* number of its Comment rows.
C13_CommentCounterInvariant ==
    \A p \in Posts :
        Quiet => comments_count[p] = Cardinality({c \in comment_rows : c.post = p})

FoDone(c) == fo_pc[c] = "done"

FoStarted(c) == fo_pc[c] # "idle"

\* c has returned, every other call made so far had returned before c started.
FoLastAlone(c) ==
    /\ FoDone(c)
    /\ \A d \in FCalls \ {c} : FoStarted(d) => d \in fo_before[c]

\* C14 (self-follow): toggle_follow(A, A) fails with the 400 of the invalid
\* operation, has executed no database statement and has created no row.
C14_SelfFollow ==
    \A c \in FCalls :
        (FoDone(c) /\ fo_arg[c].follower = fo_arg[c].following)
        => /\ fo_result[c].status = 400
           /\ fo_ops[c] = 0
           /\ \A f \in follows : f.id # c

C14_Witness ==
    \E c \in FCalls :
        /\ FoDone(c) /\ fo_arg[c].follower = fo_arg[c].following
        /\ fo_result[c].status = 400
        /\ follows # {}

\* C15 (follow toggle): a toggle_follow(A, B) call with A # B that runs with no
\* other call at the same time reports following = true and leaves the row
\* (A, B) when the row was absent, reports following = false and leaves no row
\* (A, B) when it was present, and the followers count it reports is the number
\* of Follow rows that reference B after the call.
C15_FollowToggle ==
    \A c \in FCalls :
        (FoLastAlone(c) /\ fo_arg[c].follower # fo_arg[c].following)
        => LET a == fo_arg[c].follower
               b == fo_arg[c].following
           IN /\ fo_result[c].status = 200
              /\ fo_result[c].following = ~fo_start[c]
              /\ Cardinality(PairRows(follows, a, b)) = (IF fo_start[c] THEN 0 ELSE 1)
              /\ fo_result[c].followers_count
                    = Cardinality({f \in follows : f.following = b})

C15_Witness ==
    \E c \in FCalls, d \in FCalls :
        /\ FoLastAlone(c) /\ d \in fo_before[c]
        /\ fo_arg[c] = fo_arg[d]
        /\ fo_result[d].following /\ ~fo_result[c].following
        /\ fo_result[d].followers_count = 1 /\ fo_result[c].followers_count = 0

FoConcurrent(c, d) ==
    /\ c # d /\ FoStarted(c) /\ FoStarted(d)
    /\ c \notin fo_before[d] /\ d \notin fo_before[c]

\* C16 (unique pair): in every state, whatever the interleaving of toggle
\* calls, there is at most one Like row per (user, post), at most one Follow
\* row per (follower, following), and no Follow row of a user with themselves.
C16_UniquePair ==
    /\ \A u \in LikeUsers, p \in Posts : Cardinality(RowsOf(likes, u, p)) <= 1
    /\ \A a \in FollowUsers, b \in FollowUsers :
           Cardinality(PairRows(follows, a, b)) <= 1
    /\ \A f \in follows : f.follower # f.following

\* Two calls for the same pair overlapped, one of them met the row of the
\* other (or the row that was there) and the pair still has exactly one row.
C16_Witness ==
    \E c \in FCalls, d \in FCalls :
        /\ FoConcurrent(c, d) /\ FoDone(c) /\ FoDone(d)
        /\ fo_arg[c] = fo_arg[d]
        /\ fo_result[c].following /\ ~fo_result[d].following
        /\ Cardinality(PairRows(follows, fo_arg[c].follower, fo_arg[c].following)) = 1

\* c and d are two overlapping calls of toggle_follow for the same pair, both
\* returned, both started before either had written (they met the same rows),
\* and every other call had returned before either of them started.
FoIdenticalPair(c, d) ==
    /\ FoConcurrent(c, d) /\ FoDone(c) /\ FoDone(d)
    /\ fo_arg[c] = fo_arg[d]
    /\ fo_start[c] = fo_start[d]
    /\ fo_arg[c].follower # fo_arg[c].following
    /\ \A e \in FCalls \ {c, d} :
           FoStarted(e) => (e \in fo_before[c] /\ e \in fo_before[d])

FeedPagesOf(user_id) == {get_feed_cache_key(user_id, n) : n \in FeedPages}

\* C17 (feed eviction): once a call of invalidate_feed(u) has completed, and
\* until a page of u is cached again, the cache holds no feed page of u,
\* whichever page number, with pattern deletion as with the full clear.
C17_FeedEviction ==
    \A i \in ICalls :
        (inv_pc[i] = "done" /\ inv_clean[i])
        => \A k \in FeedPagesOf(inv_arg[i]) : feed_cache[k] = None

\* Pattern deletion removed both pages of the user and left another user's page.
C17_Witness ==
    \E i \in ICalls :
        /\ inv_pc[i] = "done" /\ inv_clean[i] /\ redis_import
        /\ inv_start[i]
        /\ \A k \in FeedPagesOf(inv_arg[i]) : feed_cache[k] = None
        /\ \E k \in FeedKeys \ FeedPagesOf(inv_arg[i]) : feed_cache[k] # None

TlDone(c) == tl_pc[c] = "done"

TlStarted(c) == tl_pc[c] # "idle"

CountOf(post) == Cardinality({l \in likes : l.post = post})

\* c2 started after c1 had returned, and no other call ran in between or at
\* the same time as either.
TlConsecutive(c1, c2) ==
    /\ c1 # c2
    /\ TlDone(c1) /\ TlDone(c2)
    /\ c1 \in tl_before[c2]
    /\ \A c3 \in Calls \ {c1, c2} :
          TlStarted(c3) => (c3 \in tl_before[c1] \/ c2 \in tl_before[c3])

\* C4 (like-counter invariant): in every committed state reached by toggle_like
\* calls whose concurrent calls come from different callers, likes_count of a
\* post is the number of Like rows of that post.
C4_LikeCounterInvariant ==
    \A p \in Posts : likes_count[p] = CountOf(p)

C4_Witness ==
    \E c1 \in Calls, c2 \in Calls :
        /\ c1 # c2 /\ TlDone(c1) /\ TlDone(c2)
        /\ c1 \notin tl_before[c2] /\ c2 \notin tl_before[c1]
        /\ tl_arg[c1].user # tl_arg[c2].user
        /\ tl_arg[c1].post = tl_arg[c2].post
        /\ tl_result[c1].liked /\ ~tl_result[c2].liked
        /\ likes_count[tl_arg[c1].post] = 2

\* The calls made so far have all returned, come from different callers, target
\* one post that none of the callers had liked, and all ran at the same time.
RaceOver(S, p) ==
    /\ S = {c \in Calls : TlStarted(c)}
    /\ Cardinality(S) >= 2
    /\ \A c \in S : TlDone(c) /\ tl_arg[c].post = p /\ ~tl_start[c].liked
    /\ \A c \in S, d \in S : c # d => tl_arg[c].user # tl_arg[d].user
    /\ \A c \in S, d \in S : c \notin tl_before[d]

\* C5 (counter race): when N different users each call toggle_like once, at the
\* same time, on one post none of them has liked, every call creates one Like
\* row and returns liked = true, and once all have returned likes_count has
\* grown by exactly N.
C5_CounterRace ==
    \A S \in SUBSET Calls, p \in Posts :
        RaceOver(S, p)
        => /\ \A c \in S :
                 /\ tl_result[c].status = 200
                 /\ tl_result[c].liked
                 /\ RowsOf(likes, tl_arg[c].user, p) = {[id |-> c, user |-> tl_arg[c].user,
                                                         post |-> p]}
           /\ likes_count[p] = count0[p] + Cardinality(S)
           /\ CountOf(p) = count0[p] + Cardinality(S)

C5_Witness ==
    \E S \in SUBSET Calls, p \in Posts :
        /\ RaceOver(S, p)
        /\ Cardinality(S) = 3
        /\ likes_count[p] = count0[p] + 3

\* C6 (toggle round trip): for user A and post B with likes_count = n and no
\* Like row of (A, B), two toggle_like(A, B) calls run one after the other
\* return (true, n + 1) and then (false, n); afterwards there is no Like row of
\* (A, B) and likes_count = n.
C6_ToggleRoundTrip ==
    \A c1 \in Calls, c2 \in Calls :
        ( /\ TlConsecutive(c1, c2)
          /\ tl_arg[c1] = tl_arg[c2]
          /\ ~tl_start[c1].liked )
        => LET n == tl_start[c1].likes_count IN
           /\ tl_result[c1] = [liked |-> TRUE, likes_count |-> n + 1, status |-> 200]
           /\ tl_result[c2] = [liked |-> FALSE, likes_count |-> n, status |-> 200]
           /\ (\A c3 \in Calls \ {c1, c2} : TlStarted(c3) => c3 \in tl_before[c1])
              => /\ RowsOf(likes, tl_arg[c1].user, tl_arg[c1].post) = {}
                 /\ likes_count[tl_arg[c1].post] = n

C6_Witness ==
    \E c1 \in Calls, c2 \in Calls :
        /\ TlConsecutive(c1, c2)
        /\ tl_arg[c1] = tl_arg[c2]
        /\ ~tl_start[c1].liked
        /\ tl_start[c1].likes_count = 1
        /\ tl_result[c2] = [liked |-> FALSE, likes_count |-> 1, status |-> 200]
        /\ \A c3 \in Calls \ {c1, c2} : TlStarted(c3) => c3 \in tl_before[c1]

\* C25 (single mutation path): Like rows and Post.likes_count change only at
\* the commit of a toggle_like call; every step of post creation, post update,
\* comment creation, comment deletion and follow toggle leaves both as they are.
OtherTablesUnchanged ==
    /\ post_rows' = post_rows
    /\ comment_rows' = comment_rows
    /\ comments_count' = comments_count
    /\ follows' = follows
    /\ post_content' = post_content

Methods == {"POST", "PUT"}

FingerprintInputs ==
    [header : Tokens, method : Methods, path : {PostsPath, CommentsPath},
     body : Bodies, user : {"u1", "u2"}]

SameFour(a, b) ==
    /\ a.method = b.method
    /\ a.path = b.path
    /\ a.body = b.body
    /\ a.user = b.user

FingerprintSensitive ==
    \A a \in FingerprintInputs, b \in FingerprintInputs :
        SameFour(a, b) <=> generate_request_fingerprint(a) = generate_request_fingerprint(b)

C28_FingerprintSensitivity ==
    /\ FingerprintSensitive
    /\ \A r1 \in Reqs, r2 \in Reqs :
          (Started(r1) /\ Started(r2))
          => (SameFour(req[r1], req[r2]) <=> SameFingerprint(r1, r2))
    /\ \A r1 \in Reqs, r2 \in Reqs :
          ( /\ Consecutive(r1, r2)
            /\ SameKey(r1, r2)
            /\ (req[r1].user # req[r2].user \/ req[r1].path # req[r2].path)
            /\ Recorded(r1)
            /\ ~lapsed[r1] )
          => /\ response[r2].status = 409
             /\ response[r2].data = ErrorData("IDEMPOTENCY_CONFLICT")
             /\ ran[r2] = 0

\* A token recorded for u1 on the posts path, reused by u2 and then on the
\* comments path: two conflicts.
C28_Witness ==
    \E r1 \in Reqs, r2 \in Reqs, r3 \in Reqs :
        /\ Consecutive(r1, r2) /\ Consecutive(r2, r3)
        /\ SameKey(r1, r2) /\ SameKey(r1, r3)
        /\ Recorded(r1) /\ ~lapsed[r1]
        /\ req[r1].user # req[r2].user /\ req[r1].path = req[r2].path
        /\ req[r1].user = req[r3].user /\ req[r1].path # req[r3].path
        /\ req[r1].body = req[r2].body /\ req[r1].body = req[r3].body
        /\ response[r2].status = 409 /\ response[r3].status = 409
        /\ ran[r2] = 0 /\ ran[r3] = 0

\* C29 (canonical body): with requests handled one at a time, when a request
\* has been recorded with a 2xx result and the next request with its token has
\* the same method, path, caller and the same fields with the same values in
\* its body, in whatever order, and arrives before the record expires, the two
\* fingerprints are equal and the second request is answered with the replay.
SameStructuredValue(b1, b2) ==
    {b1[i] : i \in DOMAIN b1} = {b2[i] : i \in DOMAIN b2}

C29_CanonicalBody ==
    \A r1 \in Reqs, r2 \in Reqs :
        ( /\ Consecutive(r1, r2)
          /\ SameKey(r1, r2)
          /\ req[r1].method = req[r2].method
          /\ req[r1].path = req[r2].path
          /\ req[r1].user = req[r2].user
          /\ SameStructuredValue(req[r1].body, req[r2].body)
          /\ Recorded(r1)
          /\ Is2xx(response[r1].status)
          /\ ~lapsed[r1] )
        => /\ SameFingerprint(r1, r2)
           /\ response[r2].replayed
           /\ response[r2].status # 409

\* C30 (middleware mode): under IdempotencyMiddleware a POST, PUT or PATCH
\* request with a key goes to the downstream handler if and only if no
\* response is stored under its key when it is looked up, and a stored response
\* is returned as it is, marked as replayed; a request of another method or
\* without a key always goes to the downstream handler, and no step of it reads
\* or writes the store.
Guarded(request) ==
    request.method \in {"POST", "PUT", "PATCH"} /\ request.header # NoKey

ResponseStored(k) == cache[get_cache_key(k)].t = "dict"

C30_MiddlewareMode ==
    /\ [][ \A r \in Reqs :
              /\ (pc[r] = "idle" /\ pc'[r] # "idle")
                 => /\ (Guarded(req'[r]) <=> pc'[r] = "mw_lookup")
                    /\ cache' = cache /\ reads'[r] = 0 /\ writes'[r] = 0
              /\ (pc[r] = "mw_lookup" /\ pc'[r] # pc[r])
                 => /\ (pc'[r] = "mw_call" <=> ~ResponseStored(req[r].header))
                    /\ ResponseStored(req[r].header)
                       => /\ pc'[r] = "done"
                          /\ ran'[r] = 0
                          /\ response'[r] =
                                [status |-> cache[get_cache_key(req[r].header)].status,
                                 data |-> cache[get_cache_key(req[r].header)].data,
                                 replayed |-> TRUE]
              /\ (~Guarded(req[r]) /\ pc[r] # "idle" /\ pc'[r] # pc[r])
                 => /\ cache' = cache
                    /\ reads'[r] = 0 /\ writes'[r] = 0
                    /\ ran'[r] = 1
                    /\ pc'[r] = "done" ]_vars
    /\ [](\A r \in Reqs :
            Done(r)
            => /\ ran[r] <= 1
               /\ Guarded(req[r]) => (ran[r] = 1 <=> ~response[r].replayed)
               /\ ~Guarded(req[r])
                  => /\ ran[r] = 1 /\ reads[r] = 0 /\ writes[r] = 0
                     /\ response[r].status = get_response(req[r], r).status
                     /\ response[r].data = get_response(req[r], r).data
                     /\ ~response[r].replayed)

\* A stored response replayed to a POST with another body, and a GET that
\* carries the same key handled downstream without a look at the store.
C30_Witness ==
    \E r1 \in Reqs, r2 \in Reqs :
        /\ Done(r1) /\ Done(r2)
        /\ req[r1].header = <<"x">> /\ req[r1].method = "GET"
        /\ ran[r1] = 1 /\ reads[r1] = 0
        /\ req[r2].header = <<"x">> /\ req[r2].method = "POST"
        /\ req[r2].body = Different
        /\ response[r2].replayed /\ ran[r2] = 0
        /\ response[r2].data = [content |-> "hello"]
        /\ ResponseStored(<<"x">>)

\* C27 (gateway outcome): every completed request through the gateway ended
\* in exactly one of three outcomes: the fresh result of the handler, the
\* replay of a stored result, or a conflict; the handler ran at most once for
\* it, and it ran if and only if the outcome is the fresh result.
FreshResult(r) == response[r] = HandlerResponse(r)
ReplayResult(r) == response[r].replayed
ConflictResult(r) ==
    response[r] = [status |-> 409, data |-> ErrorData("IDEMPOTENCY_CONFLICT"),
                   replayed |-> FALSE]

Outcomes(r) ==
    {o \in {"fresh", "replay", "conflict"} :
        \/ o = "fresh" /\ FreshResult(r)
        \/ o = "replay" /\ ReplayResult(r)
        \/ o = "conflict" /\ ConflictResult(r)}

C27_GatewayOutcome ==
    \A r \in Reqs :
        Done(r)
        => /\ Cardinality(Outcomes(r)) = 1
           /\ ran[r] <= 1
           /\ reads[r] <= 2
           /\ (ran[r] = 1 <=> FreshResult(r))

\* C26 (stale feed entries): once a like toggle on a post and the feed
\* invalidation it triggers have completed, and no other like request is in
\* progress, no cached feed page of any user holds that post with a
\* likes_count other than the stored one.
LikeViewDone(c) == tl_pc[c] = "done" /\ tl_result[c].status = 200 /\ inv_pc[c] = "done"
LikeViewIdle(c) == tl_pc[c] = "idle" \/ LikeViewDone(c)

C26_NoStaleFeedEntry ==
    \A c \in LikeViewCalls :
        (LikeViewDone(c) /\ \A d \in LikeViewCalls : LikeViewIdle(d))
        => \A k \in FeedKeys :
              feed_cache[k] # None
              => \A i \in DOMAIN feed_cache[k].data :
                    feed_cache[k].data[i].id = tl_arg[c].post
                    => feed_cache[k].data[i].likes_count = likes_count[tl_arg[c].post]

\* C31 (response/fingerprint pairing): whenever a stored result and a stored
\* fingerprint both exist for a token, the fingerprint is that of a request
\* with the token whose handler run produced the stored result, also when
\* first requests with the token and different bodies run concurrently.
ProducedStoredResult(r, k) ==
    /\ Started(r)
    /\ get_idempotency_key(req[r]) = k
    /\ ran[r] = 1
    /\ writes[r] >= 1
    /\ cache[get_cache_key(k)] = Dict(response[r].data, response[r].status)

C31_ResponseFingerprintPairing ==
    \A k \in Tokens :
        ( /\ cache[get_cache_key(k)].t = "dict"
          /\ cache[get_fingerprint_key(k)].t = "str" )
        => \E r \in Reqs :
              /\ ProducedStoredResult(r, k)
              /\ cache[get_fingerprint_key(k)] = Str(generate_request_fingerprint(req[r]))

\* C32 (caller isolation): a request answered with a replay carries the token
\* of a request by the same caller whose handler run produced that status and
\* payload; a caller never receives the payload recorded for another caller.
C32_CallerIsolation ==
    \A r2 \in Reqs :
        (Done(r2) /\ response[r2].replayed)
        => \E r1 \in Reqs \ {r2} :
              /\ SameKey(r1, r2)
              /\ ran[r1] = 1
              /\ response[r1].status = response[r2].status
              /\ response[r1].data = response[r2].data
              /\ req[r1].user = req[r2].user

\* C33 (counters are never negative): likes_count and comments_count of every
\* post are at least 0 in every state, no toggle_like call fails, and every
\* deletion of a comment completes its decrement of comments_count (the
\* decrement never meets the counter at 0).
C33_CountersNeverNegative ==
    /\ [](\A p \in Posts : likes_count[p] >= 0 /\ comments_count[p] >= 0)
    /\ [](\A c \in Calls : tl_result[c].status # 500)
    /\ [][ \A comment \in comment_rows :
              comment \notin comment_rows'
              => comments_count'[comment.post] = comments_count[comment.post] - 1 ]_vars

\* What the feed of user_id holds in the current committed state.
FreshPage(user_id) == List(following_queryset(user_id))

\* Every like request that has started has returned, its feed invalidation
\* included, and every feed read that has started has returned.
LikesAndReadsDone ==
    /\ \A c \in Calls : tl_pc[c] \in {"idle", "done"}
    /\ \A c \in LikeViewCalls : tl_pc[c] = "done" => inv_pc[c] = "done"
    /\ \A r \in Reads : rd_pc[r] \in {"idle", "done"}

\* A like request of u and a read of u's feed have both returned, and nobody
\* else has liked.
LikeAndReadOf(u) ==
    /\ \A c \in Calls : tl_pc[c] # "idle" => tl_arg[c].user = u
    /\ \E c \in LikeViewCalls : tl_pc[c] = "done" /\ tl_result[c].status = 200
    /\ \E r \in Reads : rd_pc[r] = "done" /\ rd_arg[r].user = u

\* C34: feed cache race. Once a read of u's following feed and a like toggle
\* by u (with its feed invalidation) have both completed, in whatever way
\* they interleaved, each cached feed page of u is absent or holds what the
\* feed holds after the toggle; a page computed before the toggle is not left
\* in the cache.
C34_FeedCacheRace ==
    \A u \in FeedUsers :
        (LikesAndReadsDone /\ LikeAndReadOf(u))
        => \A n \in FeedPages :
              feed_cache[get_feed_cache_key(u, n)] \in {None, FreshPage(u)}

\* The read r of the following feed arrived after a toggle_follow call of
\* its user had completed, and no toggle_follow call has started since.
ReadAfterToggle(r) ==
    /\ rd_pc[r] = "done"
    /\ rd_arg[r].page = 1
    /\ {c \in FCalls : fo_pc[c] # "idle"} = rd_before[r]
    /\ \E c \in rd_before[r] : /\ fo_arg[c].follower = rd_arg[r].user
                               /\ fo_result[c].status = 200

\* C35: follow changes reach the feed. A read of A's following feed that
\* arrives after toggle_follow(A, B) has completed holds the posts of the
\* users A follows now (the posts of B after a follow, without them after an
\* unfollow), not a page cached before the toggle.
C35_FollowChangesReachFeed ==
    \A r \in Reads :
        ReadAfterToggle(r) => rd_data[r] = following_queryset(rd_arg[r].user)

\* C36: scoped eviction. With pattern deletion available, a deletion step of
\* invalidate_feed(u) removes only feed pages of owner u: the feed pages of
\* every other owner and all cache entries that are not feed pages stay.
C36_ScopedEviction ==
    [][ \A i \in ICalls :
          scan_delete(i)
          => /\ \A k \in FeedKeys \ FeedPagesOf(inv_arg[i]) : feed_cache'[k] = feed_cache[k]
             /\ \A k \in CacheKeys : cache'[k] = cache[k] ]_vars

\* ------------------------------------------------------------------ specifications

\* C21 (all-or-nothing toggle): a toggle_like call that fails, also after it
\* has created or deleted the Like row and before or while the likes_count
\* delta is applied, commits nothing; every step changes the number of Like
\* rows of a post and its likes_count by the same amount.
C21_AllOrNothing ==
    [][ /\ \A c \in Calls :
              (tl_pc[c] # "done" /\ tl_pc'[c] = "done" /\ tl_result'[c].status = 500)
              => (likes' = likes /\ likes_count' = likes_count)
        /\ \A p \in Posts :
              Cardinality({l \in likes' : l.post = p}) - Cardinality({l \in likes : l.post = p})
                = likes_count'[p] - likes_count[p] ]_vars

\* A call failed after it had created its row (and, holding the row lock,
\* after the counter update): the row is not among the committed rows.
C21_Witness ==
    \E c \in Calls :
        /\ tl_pc[c] = "done" /\ tl_result[c].status = 500
        /\ tl_like[c].id = c /\ tl_count[c] > 0
        /\ tl_like[c] \notin likes
        /\ \A p \in Posts : likes_count[p] = CountOf(p)

\* c and d are two overlapping calls of toggle_like by the same user on the
\* same post, both returned, and every other call had returned before either
\* of them started.
TlIdenticalPair(c, d) ==
    /\ c # d /\ TlDone(c) /\ TlDone(d)
    /\ tl_arg[c] = tl_arg[d]
    /\ c \notin tl_before[d] /\ d \notin tl_before[c]
    /\ \A e \in Calls \ {c, d} :
           TlStarted(e) => (e \in tl_before[c] /\ e \in tl_before[d])

\* C19 (concurrent identical toggles): two overlapping toggle_like calls of one
\* user on one post, or two overlapping toggle_follow calls for one pair, end
\* as if run one after the other: both succeed and report opposite active
\* values, the row is present afterwards exactly when it was present before,
\* and the like counter is back at its starting value and equals the number of
\* Like rows of the post.
C19_ConcurrentIdenticalToggles ==
    /\ \A c \in Calls, d \in Calls :
           TlIdenticalPair(c, d)
           => LET u == tl_arg[c].user
                  p == tl_arg[c].post
              IN /\ tl_result[c].status = 200 /\ tl_result[d].status = 200
                 /\ tl_result[c].liked # tl_result[d].liked
                 /\ (RowsOf(likes, u, p) # {}) = tl_start[c].liked
                 /\ likes_count[p] = tl_start[c].likes_count
                 /\ likes_count[p] = CountOf(p)
    /\ \A c \in FCalls, d \in FCalls :
           FoIdenticalPair(c, d)
           => /\ fo_result[c].status = 200 /\ fo_result[d].status = 200
              /\ fo_result[c].following # fo_result[d].following
              /\ (PairRows(follows, fo_arg[c].follower, fo_arg[c].following) # {})
                    = fo_start[c]


Init == GwInit /\ TlInit /\ FoInit /\ FeedInit /\ UpInit /\ RdInit

\* The gateway on a post nobody has liked, with nobody following anybody.
InitGateway == Init /\ likes = {} /\ follows = {} /\ redis_import

\* Any likes, nobody following anybody.
InitLikes == Init /\ follows = {} /\ redis_import

\* At most one like, nobody following anybody.
InitAtomic == InitLikes /\ Cardinality(likes) <= 1

\* Any follows, a post nobody has liked.
InitFollows == Init /\ likes = {} /\ redis_import

\* Empty tables, django_redis importable or not.
InitFeed == Init /\ likes = {} /\ follows = {}

Next ==
    \/ GwOutageNext \/ GwCommentsNext \/ MwNext \/ TlFailNext \/ TlNext \/ UpNext \/ FoNext
    \/ FeedNext \/ FeedRaceNext \/ FollowFeedNext

\* The whole system.
Spec == Init /\ [][Next]_vars

\* The gateway alone: requests through idempotent.wrapper, interleaved freely.
SpecGateway == InitGateway /\ [][GwNext]_vars

SpecSequential == InitGateway /\ [][GwSequentialNext]_vars

\* One request at a time, expiries noted at each arrival.
SpecExpiry == InitGateway /\ [][GwExpiryNext]_vars

\* One request at a time, bodies with their fields in either order.
SpecFieldOrder == InitGateway /\ [][GwFieldOrderNext]_vars

\* Requests through IdempotencyMiddleware in front of undecorated handlers.
SpecMiddleware == InitGateway /\ [][MwNext]_vars

\* Two callers behind IdempotencyMiddleware, one request at a time.
SpecMwCallers == InitGateway /\ [][MwCallersNext]_vars

\* Comment creation through the gateway, and comment deletion.
SpecComments == InitGateway /\ [][GwCommentsNext]_vars

\* The gateway with a cache backend that can become unreachable.
SpecOutage == InitGateway /\ [][GwOutageNext]_vars

\* The like toggle alone, concurrent calls by different callers.
SpecLikes == InitLikes /\ [][TlDistinctNext]_vars

\* The like toggle alone, any calls.
SpecToggle == InitLikes /\ [][TlNext]_vars

\* The like toggle with failures, concurrent calls of different callers, on a
\* post that at most one user has liked.
SpecAtomic == InitAtomic /\ [][TlFailNext]_vars

\* The gateway and feed invalidations, django_redis importable or not.
SpecRecords == InitFeed /\ [][RecordsNext]_vars

\* The follow toggle alone, any calls.
SpecFollows == InitFollows /\ [][FoNext]_vars

\* Either toggle, any calls.
SpecPairs == InitFollows /\ [][PairsNext]_vars

\* The feed cache: pages cached, expired and invalidated in any order.
SpecFeed == InitFeed /\ [][FeedNext]_vars

\* Like requests with their feed invalidation, and the feed cache.
SpecLikeView == InitFeed /\ [][LikeViewNext]_vars

\* The writing operations of the API, on a post nobody has liked yet.
SpecMutations == InitGateway /\ [][MutationsNext]_vars

\* Any follows, a post nobody has liked, django_redis importable or not.
InitFeedRace == Init /\ likes = {}

\* Feed reads racing with like requests.
SpecFeedRace == InitFeedRace /\ [][FeedRaceNext]_vars

\* Pattern deletion available.
SpecScoped == InitFollows /\ [][ScopedNext]_vars

\* Feed reads and follow toggles.
SpecFollowFeed == InitFollows /\ [][FollowFeedNext]_vars

====
